---- MODULE Spec2Model ----
(***************************************************************************)
(* Model of the streaming pipeline of yap-stt-api:                         *)
(*   - src/src/scheduler.py   MicroBatchScheduler (priority micro-batcher) *)
(*   - src/src/riva_server.py RivaASRServicer.StreamingRecognize           *)
(* Time is a logical monotonic clock (time.monotonic / loop.time) counted  *)
(* in abstract units; every await or yield of the code ends an action.     *)
(***************************************************************************)
EXTENDS Integers, Sequences, FiniteSets, TLC

\* ---------------------------------------------------------------- bounds
\* number of submit calls explored (values of itertools.count handed out)
MaxItems == 4
\* the clock may advance freely by MaxTime (and always up to a deadline)
MaxTime == 1
\* number of run_batch_fn calls that raise
MaxFaults == 1
\* number of futures cancelled by clients other than the modelled stream
MaxAbandon == 1
\* number of audio messages of the modelled stream
MaxChunks == 2
\* number of items other clients submit while the modelled stream is open
MaxLoad == 2

\* number of unary Recognize requests
MaxUnary == 2

\* number of requests to the HTTP transcription endpoint
MaxHttp == 3
\* audio chunks of a stream whose drain passes are followed
MaxDrainChunks == 3
\* poll intervals the clock of the settle gate runs for
MaxPolls == 9
\* iterations of the WebSocket decode loop
MaxIters == 2
\* number of WebSocket connections that arrive while the decode loop runs
MaxStreams == 2
\* number of WebSocket connections that arrive
MaxConns == 3
\* number of binary frames a WebSocket connection has queued
MaxFrames == 1

\* ---------------------------------------------------------- configuration
\* config.settings: microbatch_max_batch (config.py:32), queue_max_factor
\* (config.py:22) and microbatch_window_ms (config.py:31, in clock units),
\* small values
SettingsChoices ==
    {[microbatch_max_batch |-> 2, queue_max_factor |-> 1, microbatch_window_ms |-> 1],
     [microbatch_max_batch |-> 2, queue_max_factor |-> 2, microbatch_window_ms |-> 1],
     [microbatch_max_batch |-> 3, queue_max_factor |-> 1, microbatch_window_ms |-> 1],
     [microbatch_max_batch |-> 2, queue_max_factor |-> 1, microbatch_window_ms |-> 0]}

\* the settings of the server the modelled stream runs on
StreamSettingsChoices ==
    {[microbatch_max_batch |-> 3, queue_max_factor |-> 1, microbatch_window_ms |-> 1],
     [microbatch_max_batch |-> 3, queue_max_factor |-> 1, microbatch_window_ms |-> 0]}

\* time.monotonic() when the server starts to serve: the process has been up
\* for a clock unit (the model is loaded before on_startup returns)
StartTime == 1

\* priorities used by the callers: 0 = finals, 1 = partials (scheduler.py:14)
Prios == {0, 1}

VARIABLES
    now,          \* time.monotonic()
    seqCtr,       \* MicroBatchScheduler._seq (next value of itertools.count)
    item,         \* every WorkItem created by submit, indexed by seq + 1
    queue,        \* MicroBatchScheduler.queue, kept in priority order
    settings,     \* config.settings: the fields the scheduler is built from
    agg,          \* where the _aggregator task is suspended
    prio,         \* _aggregator local prio
    first,        \* _aggregator local first (its seq)
    batch_items,  \* _aggregator local batch_items (seqs)
    pushed_back,  \* _aggregator local pushed_back (queue entries)
    deadline,     \* _aggregator local deadline
    p0_at_anchor, \* whether the queue held a priority-0 entry when the anchor was taken
    running,      \* number of run_batch_fn calls executing in worker threads
    faults,       \* number of run_batch_fn calls that raised so far
    servicer,     \* RivaASRServicer: the fields set from configuration
    sess,         \* locals of one StreamingRecognize call and where it is suspended
    wire,         \* responses that call has yielded, in order
    runs,         \* per item (seq + 1): how many batches given to the worker held it
    unary,        \* the unary Recognize handler: where it is and how calls ended
    conns,        \* NemoCtcServer.conns: the sids registered
    sid_counter,  \* NemoCtcServer._sid_counter
    sock,         \* every WebSocket connection made, indexed by arrival
    http,         \* every request to openai_transcribe, indexed by arrival
    decode,       \* the decode_loop task of the WebSocket server
    decider,      \* the EOSDecider of a test client and its wait_for_settle
    sample        \* one PCM16 sample on its way to float32 and back

vars == <<now, seqCtr, item, queue, settings, agg, prio, first, batch_items,
          pushed_back, deadline, p0_at_anchor, running, faults, servicer, sess,
          wire, runs, unary, conns, sid_counter, sock, http, decode,
          decider, sample>>

streamVars == <<servicer, sess, wire>>
wsVars == <<conns, sid_counter, sock>>
testVars == <<decider, sample>>
otherVars == <<http, decode, testVars>>
adapterVars == <<unary, wsVars, otherVars>>
aggVars == <<agg, prio, first, batch_items, pushed_back, deadline,
             p0_at_anchor, running, faults>>

\* ------------------------------------------------------- scheduler helpers
\* server.py:63  maxsize = queue_max_factor * microbatch_max_batch
maxsize == settings.queue_max_factor * settings.microbatch_max_batch

\* scheduler.py:45  self._max_batch = max(1, int(max_batch))
max_batch ==
    IF settings.microbatch_max_batch < 1 THEN 1 ELSE settings.microbatch_max_batch

\* scheduler.py:44  self._window_ms = max(0.0, float(window_ms))
window ==
    IF settings.microbatch_window_ms < 0 THEN 0 ELSE settings.microbatch_window_ms

\* scheduler.py:70-71
qsize == Len(queue)

\* a queue built without its maxsize
full_unbounded(q) == FALSE

\* asyncio.PriorityQueue.full(): never full when maxsize <= 0
full(q) == IF maxsize <= 0 THEN FALSE ELSE Len(q) >= maxsize

\* order of the tuples (priority, enqueue_monotonic, seq, item) in the heap
KeyLess(a, b) ==
    \/ a[1] < b[1]
    \/ a[1] = b[1] /\ a[2] < b[2]
    \/ a[1] = b[1] /\ a[2] = b[2] /\ a[3] < b[3]

\* a stack in place of the priority queue
put_lifo(q, e) == <<e>> \o q

\* a plain FIFO queue in place of the priority queue
put_fifo(q, e) == Append(q, e)

\* asyncio.PriorityQueue.put_nowait on a queue with room: heap insertion,
\* modelled by keeping the sequence sorted by key
put_nowait(q, e) ==
    LET k == Cardinality({i \in 1..Len(q) : ~KeyLess(e, q[i])})
    IN  SubSeq(q, 1, k) \o <<e>> \o SubSeq(q, k + 1, Len(q))

SeqOf(e) == e[3]
PrioOf(e) == e[1]

Range(s) == {s[i] : i \in 1..Len(s)}

\* scheduler.py:56-68  submit: the item is created (a seq is consumed) and
\* put_nowait either enqueues it or raises QueueFull.  o: who submits; w: the
\* waveform, as the stream bytes [lo, hi) it was converted from; t: the
\* transcript the model returns for that waveform.
submit(p, o, w, t) ==
    /\ seqCtr' = seqCtr + 1
    /\ runs' = Append(runs, 0)
    /\ IF full(queue)
       THEN /\ queue' = queue
            /\ item' = Append(item, [priority |-> p, owner |-> o, waveform |-> w,
                                     text |-> t, future |-> "pending",
                                     accepted |-> FALSE])
       ELSE /\ queue' = put_nowait(queue, <<p, now, seqCtr>>)
            /\ item' = Append(item, [priority |-> p, owner |-> o, waveform |-> w,
                                     text |-> t, future |-> "pending",
                                     accepted |-> TRUE])

\* scheduler.py:107-109  for tup in pushed_back: put_nowait(tup); the loop
\* stops at the first QueueFull.  Result: the queue and the entries not put.
RECURSIVE PutAll(_, _)
PutAll(q, pb) ==
    IF pb = <<>> THEN [queue |-> q, left |-> <<>>]
    ELSE IF full(q) THEN [queue |-> q, left |-> pb]
    ELSE PutAll(put_nowait(q, Head(pb)), Tail(pb))

BumpRuns(r, b) ==
    [k \in DOMAIN r |-> r[k] + Cardinality({i \in 1..Len(b) : b[i] = k - 1})]

\* the worker call is started without being awaited
StartBatchNoAwait(q, b, pb, p, f, dl, rn) ==
    LET r == PutAll(q, pb) IN
    /\ queue' = r.queue
    /\ prio' = p /\ first' = f /\ deadline' = dl
    /\ batch_items' = b
    /\ pushed_back' = r.left
    /\ IF r.left # <<>>
       THEN agg' = "dead" /\ running' = rn /\ runs' = runs
       ELSE agg' = "get" /\ running' = rn + 1 /\ runs' = BumpRuns(runs, b)

\* scheduler.py:107-115  leave the collection loop: return pushed_back to the
\* queue (QueueFull ends the task), then hand the batch to run_batch_fn in a
\* worker thread and suspend until it is back.  q: queue, b: batch_items,
\* pb: pushed_back, p: prio, f: first, dl: deadline at that point; rn: the
\* number of worker calls executing.  After QueueFull the locals of the dead
\* task are kept as they were: batch_items and the entries not returned.
StartBatch(q, b, pb, p, f, dl, rn) ==
    LET r == PutAll(q, pb) IN
    /\ queue' = r.queue
    /\ prio' = p /\ first' = f /\ deadline' = dl
    /\ batch_items' = b
    /\ pushed_back' = r.left
    /\ IF r.left # <<>>
       THEN agg' = "dead" /\ running' = rn /\ runs' = runs
       ELSE agg' = "run" /\ running' = rn + 1 /\ runs' = BumpRuns(runs, b)

\* scheduler.py:79-89  take the anchor item from a non-empty queue q; the
\* collection loop is skipped when max_batch is 1 or the window is 0, else
\* the task suspends in the first wait_for
TakeAnchor(q, rn) ==
    LET e == Head(q) IN
    /\ p0_at_anchor' = (\E i \in 1..Len(q) : PrioOf(q[i]) = 0)
    /\ IF max_batch <= 1 \/ window <= 0
       THEN StartBatch(Tail(q), <<SeqOf(e)>>, <<>>, PrioOf(e), SeqOf(e),
                       now + window, rn)
       ELSE /\ queue' = Tail(q)
            /\ prio' = PrioOf(e) /\ first' = SeqOf(e)
            /\ batch_items' = <<SeqOf(e)>>
            /\ pushed_back' = <<>>
            /\ deadline' = now + window
            /\ agg' = "collect"
            /\ running' = rn /\ runs' = runs

\* scheduler.py:77-79  back at the top of the loop: queue.get() returns at
\* once when the queue holds an item, else the task suspends
NextRound(q, rn) ==
    IF q # <<>> THEN TakeAnchor(q, rn)
    ELSE /\ agg' = "get" /\ queue' = q
         /\ batch_items' = <<>> /\ pushed_back' = <<>>
         /\ running' = rn
         /\ UNCHANGED <<prio, first, deadline, p0_at_anchor, runs>>

\* ---------------------------------------------------------------- actions
\* items submitted by clients other than the modelled stream
EnvCount == Cardinality({k \in DOMAIN item : item[k].owner = "env"})

\* how many such items are explored: MaxItems when no stream is open, MaxLoad
\* beside an open stream
EnvBudget == IF sess.pc = "off" THEN MaxItems ELSE MaxLoad

\* a client other than the modelled stream (server.py:159, 221, or another
\* RPC) calls submit
EnvSubmit(p) ==
    /\ EnvCount < EnvBudget
    /\ submit(p, "env", <<0, 0>>, "t")
    /\ UNCHANGED <<now, settings>>
    /\ UNCHANGED aggVars
    /\ UNCHANGED streamVars
    /\ UNCHANGED adapterVars

\* such a client's asyncio.wait_for times out and cancels the future
\* (server.py:160-167)
EnvAbandon(s) ==
    /\ s < seqCtr
    /\ item[s + 1].owner = "env" /\ item[s + 1].accepted
    /\ item[s + 1].future = "pending"
    /\ Cardinality({k \in DOMAIN item : item[k].owner = "env"
                       /\ item[k].future = "cancelled"}) < MaxAbandon
    /\ item' = [item EXCEPT ![s + 1].future = "cancelled"]
    /\ UNCHANGED <<now, seqCtr, queue, settings, runs>>
    /\ UNCHANGED aggVars
    /\ UNCHANGED streamVars
    /\ UNCHANGED adapterVars

\* scheduler.py:79  the suspended queue.get() of the anchor is woken
AggGet ==
    /\ agg = "get" /\ queue # <<>>
    /\ TakeAnchor(queue, running)
    /\ UNCHANGED <<now, seqCtr, item, settings, faults>>
    /\ UNCHANGED streamVars
    /\ UNCHANGED adapterVars

\* the collection loop is left at the deadline only
LoopHeadNoLimit(q, b, pb, p, f, dl) ==
    IF dl - now <= 0
    THEN StartBatch(q, b, pb, p, f, dl, running)
    ELSE /\ queue' = q /\ batch_items' = b /\ pushed_back' = pb
         /\ prio' = p /\ first' = f /\ deadline' = dl
         /\ UNCHANGED <<agg, running, runs>>

\* scheduler.py:85-88  the head of the collection loop, reached without a
\* suspension after an entry was handled: the loop is left when the batch is
\* full or the deadline dl has passed, else the task suspends in wait_for.
\* q, b, pb, p, f: queue, batch_items, pushed_back, prio, first at that point.
LoopHead(q, b, pb, p, f, dl) ==
    IF Len(b) >= max_batch \/ dl - now <= 0
    THEN StartBatch(q, b, pb, p, f, dl, running)
    ELSE /\ queue' = q /\ batch_items' = b /\ pushed_back' = pb
         /\ prio' = p /\ first' = f /\ deadline' = dl
         /\ UNCHANGED <<agg, running, runs>>

\* the entry is appended to the batch whatever its priority
AggCollectMixed ==
    /\ agg = "collect" /\ queue # <<>>
    /\ LoopHead(Tail(queue), Append(batch_items, Head(queue)[3]), pushed_back,
                prio, first, deadline)
    /\ UNCHANGED <<now, seqCtr, item, settings, faults, p0_at_anchor>>
    /\ UNCHANGED streamVars
    /\ UNCHANGED adapterVars

\* scheduler.py:89-106  wait_for(queue.get(), timeout) returns an entry: the
\* inner get finds the queue non-empty when it runs, whatever the clock says
AggCollect ==
    /\ agg = "collect" /\ queue # <<>>
    /\ LET tup == Head(queue)
           p2 == tup[1]
           wi2 == tup[3]
           q2 == Tail(queue)
       IN  IF p2 = prio
           THEN LoopHead(q2, Append(batch_items, wi2), pushed_back, prio, first,
                         deadline)
           ELSE IF Len(batch_items) = 1 /\ p2 < prio
           THEN LoopHead(q2, <<wi2>>,
                         pushed_back \o <<tup, <<prio, now, first>>>>,
                         p2, first, now + window)
           ELSE LoopHead(q2, batch_items, Append(pushed_back, tup), prio, first,
                         deadline)
    /\ UNCHANGED <<now, seqCtr, item, settings, faults, p0_at_anchor>>
    /\ UNCHANGED streamVars
    /\ UNCHANGED adapterVars

\* scheduler.py:90-92  wait_for raises TimeoutError: the deadline has passed
\* and the inner get was still waiting, so whatever the queue holds was put
\* at the deadline or later
AggWindowClose ==
    /\ agg = "collect" /\ now >= deadline
    /\ \A i \in 1..Len(queue) : queue[i][2] >= deadline
    /\ StartBatch(queue, batch_items, pushed_back, prio, first, deadline,
                  running)
    /\ UNCHANGED <<now, seqCtr, item, settings, faults, p0_at_anchor>>
    /\ UNCHANGED streamVars
    /\ UNCHANGED adapterVars

\* the outcome is set on every future of the batch, done or not
DeliverUnguarded(v) ==
    [k \in DOMAIN item |->
        IF (k - 1) \in Range(batch_items)
        THEN [item[k] EXCEPT !.future = v]
        ELSE item[k]]

\* the outcome is set on every future that is not done, of the batch or not
DeliverAll(v) ==
    [k \in DOMAIN item |->
        IF item[k].future = "pending"
        THEN [item[k] EXCEPT !.future = v]
        ELSE item[k]]

\* scheduler.py:118-120, 127-131  futures of the batch that are not done get
\* the outcome v
Deliver(v) ==
    [k \in DOMAIN item |->
        IF (k - 1) \in Range(batch_items) /\ item[k].future = "pending"
        THEN [item[k] EXCEPT !.future = v]
        ELSE item[k]]

\* scheduler.py:115, 125-132  run_batch_fn returned: the results are
\* delivered and the loop goes round
WorkerReturn ==
    /\ agg = "run"
    /\ item' = Deliver("result")
    /\ NextRound(queue, running - 1)
    /\ UNCHANGED <<now, seqCtr, settings, faults>>
    /\ UNCHANGED streamVars
    /\ UNCHANGED adapterVars

\* scheduler.py:115-123  run_batch_fn raised: every future of the batch that
\* is not done gets the exception, and the loop goes round
WorkerRaise ==
    /\ agg = "run" /\ faults < MaxFaults
    /\ item' = Deliver("exception")
    /\ faults' = faults + 1
    /\ NextRound(queue, running - 1)
    /\ UNCHANGED <<now, seqCtr, settings>>
    /\ UNCHANGED streamVars
    /\ UNCHANGED adapterVars

\* the clock advances
Tick ==
    /\ now < StartTime + MaxTime \/ (agg = "collect" /\ now < deadline)
    /\ now' = now + 1
    /\ UNCHANGED <<seqCtr, item, queue, settings, runs>>
    /\ UNCHANGED aggVars
    /\ UNCHANGED streamVars
    /\ UNCHANGED adapterVars

\* ------------------------------------------------- StreamingRecognize
\* len(req.audio_content) of an inbound message, in bytes
ChunkSizes == {0, 1, 2, 4}
\* the servicer's configuration: max_ctx_seconds * SAMPLE_RATE
\* (riva_server.py:46) and seg_overlap_bytes (riva_server.py:62), small values
ServicerChoices == {[max_ctx_samps |-> 0, seg_overlap_bytes |-> 0],
                    [max_ctx_samps |-> 1, seg_overlap_bytes |-> 2]}
\* chunk sizes of a client that sends one hard segment per message
SharedChunkSizes == {4}
\* transcripts: empty (nothing after strip) or not
Texts == {"", "t"}

\* riva_server.py:22
SAMPLE_RATE == 16000
\* config.sample_rate_hertz of a unary request: unset (0), 8 kHz, 16 kHz
SampleRates == {0, 8000, 16000}
\* streaming_config.config.sample_rate_hertz of a stream
StreamRates == {8000, 16000}
\* riva_server.py:23
BYTES_PER_SAMPLE == 2
\* riva_server.py:44, small value
step_bytes == 2
\* riva_server.py:60-63, small values
seg_len_bytes == 4
seg_min_bytes == 2
seg_overlap_bytes == servicer.seg_overlap_bytes
sil_win_bytes == 2
\* riva_server.py:49, in clock units
decimation_min_interval_s == 1
\* riva_server.py:50
decimation_when_hot == TRUE
\* riva_server.py:51  hot_queue_threshold, as the fraction 1/3
hot_queue_num == 1
hot_queue_den == 3

\* config.py:38  settings.max_audio_seconds, as bytes of 16 kHz PCM16, small
\* value
max_audio_bytes == 4

\* riva_server.py:46-47
max_ctx_samps == servicer.max_ctx_samps
max_ctx_bytes == max_ctx_samps * BYTES_PER_SAMPLE

Min(a, b) == IF a < b THEN a ELSE b

\* length left by  del buf[:-m]  on a buffer of n bytes: buf[:-0] is the
\* empty slice, so nothing is deleted when m = 0
DelAllButLast(n, m) == IF m = 0 THEN n ELSE Min(n, m)

\* length of  arr[-m:]  on an array of n elements: arr[-0:] is all of it
LastOf(n, m) == IF m = 0 THEN n ELSE Min(n, m)

\* riva_server.py:26-27  np.frombuffer(buf, int16) raises ValueError unless
\* the buffer holds whole samples
WholeSamples(nbytes) == nbytes % BYTES_PER_SAMPLE = 0

\* every chunk reaches the cadence
CadenceAlways(since) == TRUE

\* riva_server.py:113  negation of  since_last_emit < self.step_bytes
CadenceReached(since) == since >= step_bytes

\* riva_server.py:119, 124  queue_fraction >= self.hot_queue_threshold
QueueHot ==
    qsize * hot_queue_den >= hot_queue_num * (IF maxsize < 1 THEN 1 ELSE maxsize)

\* no tick is ever skipped
DecimateNever(hot, now_mono, last) == FALSE

\* riva_server.py:124-126  the tick is skipped
Decimate(hot, now_mono, last) ==
    decimation_when_hot /\ hot /\ (now_mono - last) < decimation_min_interval_s

FutureOf(s) == IF s < seqCtr THEN item[s + 1].future ELSE "pending"
TextOf(s) == item[s + 1].text

Partial(s) == [final |-> FALSE, seg |-> -1, tick |-> s.now_mono, hot |-> s.hot,
               rx |-> s.rx]
Final(idx) == [final |-> TRUE, seg |-> idx, tick |-> 0, hot |-> FALSE, rx |-> 0]

\* riva_server.py:74-86  the locals at the start of StreamingRecognize
NewSession(pc) ==
    [pc |-> pc, status |-> "", first_msg |-> "none", interim |-> TRUE,
     sample_rate_hertz |-> 0, chunks |-> 0,
     ctx_buf |-> 0, full_buf |-> 0, rx |-> 0,
     since_last_emit |-> 0, last_emit_monotonic |-> 0,
     now_mono |-> 0, hot |-> FALSE, fut |-> 0,
     pending_segments |-> <<>>, seg_idx |-> 0, seg_start_bytes |-> 0,
     pos |-> 0, done_now |-> <<>>]

\* the RPC is over with status st; its locals are gone
Ended(pc, st) == [NewSession(pc) EXCEPT !.status = st]
\* context.abort(code, ...) raises and ends the RPC with that status
Abort(s, code) == Ended("aborted", code)
\* an exception nothing catches ends the RPC (gRPC reports UNKNOWN)
Crash(s) == Ended("crashed", "UNKNOWN")
\* locals that are not read again before they are assigned
Forget(s) == [s EXCEPT !.now_mono = 0, !.hot = FALSE, !.fut = 0, !.pos = 0,
                       !.done_now = <<>>]

\* the loops visit pending_segments from the last entry to the first
PendingAtReversed(l, k) == l[Len(l) + 1 - k]

\* riva_server.py:188, 230  for fut, idx in pending_segments: the k-th entry
PendingAt(l, k) == l[k]

\* riva_server.py:186-207  the drain of pending_segments from entry k on, with
\* done_now = dn: up to the next yield, an abort or the end of the pass.
\* Result: the locals and what is yielded.
RECURSIVE DrainLoop(_, _, _)
DrainLoop(s, k, dn) ==
    IF k > Len(s.pending_segments)
    THEN [s |-> [Forget(s) EXCEPT !.pc = "recv",
                                  !.pending_segments =
                                      SelectSeq(s.pending_segments,
                                                LAMBDA p : p \notin Range(dn))],
          out |-> <<>>]
    ELSE LET p == PendingAt(s.pending_segments, k)
             f == FutureOf(p[1])
         IN  IF f = "pending" THEN DrainLoop(s, k + 1, dn)
             ELSE IF f = "result"
             THEN IF TextOf(p[1]) = ""
                  THEN DrainLoop(s, k + 1, Append(dn, p))
                  ELSE [s |-> [s EXCEPT !.pc = "yield_final", !.pos = k,
                                        !.done_now = dn],
                        out |-> <<Final(p[2])>>]
             ELSE IF f = "exception"
             THEN [s |-> Abort(s, "INTERNAL"), out |-> <<>>]
             ELSE [s |-> Crash(s), out |-> <<>>]

\* riva_server.py:230-245  the end-of-stream loop over pending_segments from
\* entry k on: up to the next suspension (an await on a future that is not
\* done, a yield), an abort or the end of the RPC
RECURSIVE EndLoop(_, _)
EndLoop(s, k) ==
    IF k > Len(s.pending_segments)
    THEN [s |-> Ended("done", "OK"), out |-> <<>>]
    ELSE LET p == PendingAt(s.pending_segments, k)
             f == FutureOf(p[1])
         IN  IF f = "pending"
             THEN [s |-> [s EXCEPT !.pc = "end_wait", !.pos = k, !.fut = p[1]],
                   out |-> <<>>]
             ELSE IF f = "result"
             THEN IF TextOf(p[1]) = ""
                  THEN EndLoop(s, k + 1)
                  ELSE [s |-> [s EXCEPT !.pc = "yield_end", !.pos = k, !.fut = 0],
                        out |-> <<Final(p[2])>>]
             ELSE IF f = "exception"
             THEN [s |-> Abort(s, "INTERNAL"), out |-> <<>>]
             ELSE [s |-> Crash(s), out |-> <<>>]

SchedUnchanged == UNCHANGED <<seqCtr, item, queue, runs>>

\* a cut that keeps no overlap in full_buf
SegmentationNoOverlap(s, sil, t) ==
    LET since_seg == s.full_buf - s.seg_start_bytes
        tail_len == Min(sil_win_bytes, since_seg)
        hard == since_seg >= seg_len_bytes
        soft == ~hard /\ since_seg >= seg_min_bytes
        should_cut == hard \/ (soft /\ (tail_len = 0 \/ sil))
        seg_bytes == s.full_buf - s.seg_start_bytes
        keep == Min(seg_overlap_bytes, s.full_buf)
    IN  IF soft /\ tail_len > 0 /\ ~WholeSamples(tail_len)
        THEN sess' = Crash(s) /\ wire' = wire /\ SchedUnchanged
        ELSE IF ~should_cut
        THEN LET d == IF s.pending_segments # <<>> THEN DrainLoop(s, 1, <<>>)
                      ELSE [s |-> [Forget(s) EXCEPT !.pc = "recv"], out |-> <<>>]
             IN  sess' = d.s /\ wire' = wire \o d.out /\ SchedUnchanged
        ELSE IF ~WholeSamples(seg_bytes)
        THEN sess' = Crash(s) /\ wire' = wire /\ SchedUnchanged
        ELSE /\ submit(0, "seg", <<s.rx - seg_bytes, s.rx>>, t)
             /\ IF full(queue)
                THEN sess' = Crash(s) /\ wire' = wire
                ELSE LET s2 == [s EXCEPT
                                  !.pending_segments = Append(@, <<seqCtr, s.seg_idx>>),
                                  !.seg_idx = @ + 1,
                                  !.full_buf = 0,
                                  !.seg_start_bytes = 0]
                         d == DrainLoop(s2, 1, <<>>)
                     IN  sess' = d.s /\ wire' = wire \o d.out

\* a cut that gives the next segment the same index
SegmentationSameIndex(s, sil, t) ==
    LET since_seg == s.full_buf - s.seg_start_bytes
        tail_len == Min(sil_win_bytes, since_seg)
        hard == since_seg >= seg_len_bytes
        soft == ~hard /\ since_seg >= seg_min_bytes
        should_cut == hard \/ (soft /\ (tail_len = 0 \/ sil))
        seg_bytes == s.full_buf - s.seg_start_bytes
        keep == Min(seg_overlap_bytes, s.full_buf)
    IN  IF soft /\ tail_len > 0 /\ ~WholeSamples(tail_len)
        THEN sess' = Crash(s) /\ wire' = wire /\ SchedUnchanged
        ELSE IF ~should_cut
        THEN LET d == IF s.pending_segments # <<>> THEN DrainLoop(s, 1, <<>>)
                      ELSE [s |-> [Forget(s) EXCEPT !.pc = "recv"], out |-> <<>>]
             IN  sess' = d.s /\ wire' = wire \o d.out /\ SchedUnchanged
        ELSE IF ~WholeSamples(seg_bytes)
        THEN sess' = Crash(s) /\ wire' = wire /\ SchedUnchanged
        ELSE /\ submit(0, "seg", <<s.rx - seg_bytes, s.rx>>, t)
             /\ IF full(queue)
                THEN sess' = Crash(s) /\ wire' = wire
                ELSE LET s2 == [s EXCEPT
                                  !.pending_segments = Append(@, <<seqCtr, s.seg_idx>>),
                                  !.seg_idx = @,
                                  !.full_buf = keep,
                                  !.seg_start_bytes = 0]
                         d == DrainLoop(s2, 1, <<>>)
                     IN  sess' = d.s /\ wire' = wire \o d.out

\* riva_server.py:154-207  segmentation and the start of the drain, from the
\* locals s.  sil: whether the tail window of full_buf has energy below the
\* threshold; t: the transcript of the segment, if one is cut.
Segmentation(s, sil, t) ==
    LET since_seg == s.full_buf - s.seg_start_bytes
        tail_len == Min(sil_win_bytes, since_seg)
        hard == since_seg >= seg_len_bytes
        soft == ~hard /\ since_seg >= seg_min_bytes
        should_cut == hard \/ (soft /\ (tail_len = 0 \/ sil))
        seg_bytes == s.full_buf - s.seg_start_bytes
        keep == Min(seg_overlap_bytes, s.full_buf)
    IN  IF soft /\ tail_len > 0 /\ ~WholeSamples(tail_len)
        THEN sess' = Crash(s) /\ wire' = wire /\ SchedUnchanged
        ELSE IF ~should_cut
        THEN LET d == IF s.pending_segments # <<>> THEN DrainLoop(s, 1, <<>>)
                      ELSE [s |-> [Forget(s) EXCEPT !.pc = "recv"], out |-> <<>>]
             IN  sess' = d.s /\ wire' = wire \o d.out /\ SchedUnchanged
        ELSE IF ~WholeSamples(seg_bytes)
        THEN sess' = Crash(s) /\ wire' = wire /\ SchedUnchanged
        ELSE /\ submit(0, "seg", <<s.rx - seg_bytes, s.rx>>, t)
             /\ IF full(queue)
                THEN sess' = Crash(s) /\ wire' = wire
                ELSE LET s2 == [s EXCEPT
                                  !.pending_segments = Append(@, <<seqCtr, s.seg_idx>>),
                                  !.seg_idx = @ + 1,
                                  !.full_buf = keep,
                                  !.seg_start_bytes = 0]
                         d == DrainLoop(s2, 1, <<>>)
                     IN  sess' = d.s /\ wire' = wire \o d.out

\* what the first message of a stream was
FirstMsg(has_config, linear_pcm) ==
    IF ~has_config THEN "no_config"
    ELSE IF ~linear_pcm THEN "bad_encoding" ELSE "valid"

\* every first message is taken for a valid one
RecvFirstLenient(has_config, linear_pcm, interim_results, rate) ==
    /\ sess.pc = "first"
    /\ sess' = [sess EXCEPT !.pc = "recv", !.interim = interim_results,
                            !.sample_rate_hertz = rate,
                            !.first_msg = FirstMsg(has_config, linear_pcm)]
    /\ UNCHANGED <<now, settings, servicer, wire>>
    /\ SchedUnchanged
    /\ UNCHANGED aggVars
    /\ UNCHANGED adapterVars

\* riva_server.py:87-98  the first message of the stream arrives; rate is
\* cfg.config.sample_rate_hertz, which the handler does not read.  What the
\* message was is remembered in first_msg, also after an abort.
RecvFirst(has_config, linear_pcm, interim_results, rate) ==
    /\ sess.pc = "first"
    /\ sess' = IF ~has_config \/ ~linear_pcm
               THEN [Abort(sess, "INVALID_ARGUMENT") EXCEPT
                         !.first_msg = FirstMsg(has_config, linear_pcm)]
               ELSE [sess EXCEPT !.pc = "recv", !.interim = interim_results,
                                 !.sample_rate_hertz = rate,
                                 !.first_msg = "valid"]
    /\ UNCHANGED <<now, settings, servicer, wire>>
    /\ SchedUnchanged
    /\ UNCHANGED aggVars
    /\ UNCHANGED adapterVars

\* riva_server.py:100-132  a later message with n bytes of audio arrives and
\* is handled up to the submit of the tick
RecvChunk(n) ==
    /\ sess.pc = "recv"
    /\ LET ctx == sess.ctx_buf + n
           ctx2 == IF ctx > max_ctx_bytes THEN DelAllButLast(ctx, max_ctx_bytes)
                   ELSE ctx
           s1 == [sess EXCEPT !.chunks = @ + 1,
                              !.full_buf = @ + n,
                              !.ctx_buf = ctx2,
                              !.rx = @ + n,
                              !.since_last_emit = @ + n]
           s2 == [s1 EXCEPT !.now_mono = now, !.hot = QueueHot]
           samples == ctx2 \div BYTES_PER_SAMPLE
           pcm == IF samples > max_ctx_samps THEN LastOf(samples, max_ctx_samps)
                  ELSE samples
       IN  IF n = 0
           THEN sess' = [sess EXCEPT !.chunks = @ + 1] /\ SchedUnchanged
           ELSE IF ~CadenceReached(s1.since_last_emit)
           THEN sess' = s1 /\ SchedUnchanged
           ELSE IF Decimate(s2.hot, s2.now_mono, s2.last_emit_monotonic)
           THEN sess' = s1 /\ SchedUnchanged
           ELSE IF ~WholeSamples(ctx2)
           THEN sess' = Crash(s2) /\ SchedUnchanged
           ELSE /\ submit(1, "tick", <<s2.rx - pcm * BYTES_PER_SAMPLE, s2.rx>>, "t")
                /\ sess' = IF full(queue) THEN Crash(s2)
                           ELSE [s2 EXCEPT !.pc = "tick_wait", !.fut = seqCtr]
    /\ UNCHANGED <<now, settings, servicer, wire>>
    /\ UNCHANGED aggVars
    /\ UNCHANGED adapterVars

\* the partial is yielded whatever interim_results said
TickResultAlwaysYields ==
    /\ sess.pc = "tick_wait" /\ FutureOf(sess.fut) = "result"
    /\ sess' = [Forget(sess) EXCEPT !.last_emit_monotonic = sess.now_mono,
                                    !.since_last_emit = 0,
                                    !.pc = "yield_partial"]
    /\ wire' = Append(wire, Partial(sess))
    /\ SchedUnchanged
    /\ UNCHANGED <<now, settings, servicer>>
    /\ UNCHANGED aggVars
    /\ UNCHANGED adapterVars

\* riva_server.py:134, 140-152  the tick's future has a result
TickResult ==
    /\ sess.pc = "tick_wait" /\ FutureOf(sess.fut) = "result"
    /\ LET s1 == [Forget(sess) EXCEPT !.last_emit_monotonic = sess.now_mono,
                                      !.since_last_emit = 0]
       IN  IF s1.interim
           THEN /\ sess' = [s1 EXCEPT !.pc = "yield_partial"]
                /\ wire' = Append(wire, Partial(sess))
                /\ SchedUnchanged
           ELSE \E sil \in BOOLEAN, t \in Texts : Segmentation(s1, sil, t)
    /\ UNCHANGED <<now, settings, servicer>>
    /\ UNCHANGED aggVars
    /\ UNCHANGED adapterVars

\* riva_server.py:137-138  the tick's future has the worker's exception
TickError ==
    /\ sess.pc = "tick_wait" /\ FutureOf(sess.fut) = "exception"
    /\ sess' = Abort(sess, "INTERNAL")
    /\ UNCHANGED <<now, settings, servicer, wire>>
    /\ SchedUnchanged
    /\ UNCHANGED aggVars
    /\ UNCHANGED adapterVars

\* the timeout of a tick ends the RPC like the timeout of a final
TickTimeoutAborts ==
    /\ sess.pc = "tick_wait" /\ FutureOf(sess.fut) = "pending"
    /\ item' = [item EXCEPT ![sess.fut + 1].future = "cancelled"]
    /\ sess' = Abort(sess, "INTERNAL")
    /\ UNCHANGED <<now, settings, servicer, wire, seqCtr, queue, runs>>
    /\ UNCHANGED aggVars
    /\ UNCHANGED adapterVars

\* riva_server.py:134-136  wait_for gives up after tick_timeout_s: the future
\* is cancelled and the loop continues with the next message
TickTimeout ==
    /\ sess.pc = "tick_wait" /\ FutureOf(sess.fut) = "pending"
    /\ item' = [item EXCEPT ![sess.fut + 1].future = "cancelled"]
    /\ sess' = [Forget(sess) EXCEPT !.pc = "recv"]
    /\ UNCHANGED <<now, settings, servicer, wire, seqCtr, queue, runs>>
    /\ UNCHANGED aggVars
    /\ UNCHANGED adapterVars

\* riva_server.py:144-207  the generator is resumed after the partial
ResumePartial ==
    /\ sess.pc = "yield_partial"
    /\ \E sil \in BOOLEAN, t \in Texts : Segmentation(sess, sil, t)
    /\ UNCHANGED <<now, settings, servicer>>
    /\ UNCHANGED aggVars
    /\ UNCHANGED adapterVars

\* riva_server.py:197-207  the generator is resumed after a final of the drain
ResumeFinal ==
    /\ sess.pc = "yield_final"
    /\ LET d == DrainLoop(sess, sess.pos + 1,
                          Append(sess.done_now,
                                 PendingAt(sess.pending_segments, sess.pos)))
       IN  sess' = d.s /\ wire' = wire \o d.out
    /\ UNCHANGED <<now, settings, servicer>>
    /\ SchedUnchanged
    /\ UNCHANGED aggVars
    /\ UNCHANGED adapterVars

\* riva_server.py:87, 209-212, 229-232  the request iterator ends
RecvEnd ==
    /\ sess.pc \in {"first", "recv"}
    /\ IF sess.full_buf > 0
       THEN IF ~WholeSamples(sess.full_buf)
            THEN sess' = Crash(sess) /\ wire' = wire /\ SchedUnchanged
            ELSE \E t \in Texts :
                 /\ submit(0, "tail", <<sess.rx - sess.full_buf, sess.rx>>, t)
                 /\ sess' = IF full(queue) THEN Crash(sess)
                            ELSE [sess EXCEPT !.pc = "tail_wait", !.fut = seqCtr]
                 /\ wire' = wire
       ELSE LET d == EndLoop(sess, 1)
            IN  sess' = d.s /\ wire' = wire \o d.out /\ SchedUnchanged
    /\ UNCHANGED <<now, settings, servicer>>
    /\ UNCHANGED aggVars
    /\ UNCHANGED adapterVars

\* riva_server.py:214, 218-232  the tail's future has a result
TailResult ==
    /\ sess.pc = "tail_wait" /\ FutureOf(sess.fut) = "result"
    /\ IF TextOf(sess.fut) # ""
       THEN /\ sess' = [Forget(sess) EXCEPT !.pc = "yield_tail"]
            /\ wire' = Append(wire, Final(-1))
       ELSE LET d == EndLoop(sess, 1)
            IN  sess' = d.s /\ wire' = wire \o d.out
    /\ UNCHANGED <<now, settings, servicer>>
    /\ SchedUnchanged
    /\ UNCHANGED aggVars
    /\ UNCHANGED adapterVars

\* riva_server.py:215-217  the tail's future has the worker's exception
TailError ==
    /\ sess.pc = "tail_wait" /\ FutureOf(sess.fut) = "exception"
    /\ sess' = Abort(sess, "INTERNAL")
    /\ UNCHANGED <<now, settings, servicer, wire>>
    /\ SchedUnchanged
    /\ UNCHANGED aggVars
    /\ UNCHANGED adapterVars

\* riva_server.py:214-217  wait_for gives up after finals_timeout_s
TailTimeout ==
    /\ sess.pc = "tail_wait" /\ FutureOf(sess.fut) = "pending"
    /\ item' = [item EXCEPT ![sess.fut + 1].future = "cancelled"]
    /\ sess' = Abort(sess, "INTERNAL")
    /\ UNCHANGED <<now, settings, servicer, wire, seqCtr, queue, runs>>
    /\ UNCHANGED aggVars
    /\ UNCHANGED adapterVars

\* riva_server.py:220-232  the generator is resumed after the tail's final
ResumeTail ==
    /\ sess.pc = "yield_tail"
    /\ LET d == EndLoop(sess, 1)
       IN  sess' = d.s /\ wire' = wire \o d.out
    /\ UNCHANGED <<now, settings, servicer>>
    /\ SchedUnchanged
    /\ UNCHANGED aggVars
    /\ UNCHANGED adapterVars

\* riva_server.py:232-245  the awaited segment future is done
EndWake ==
    /\ sess.pc = "end_wait" /\ FutureOf(sess.fut) # "pending"
    /\ LET d == EndLoop(sess, sess.pos)
       IN  sess' = d.s /\ wire' = wire \o d.out
    /\ UNCHANGED <<now, settings, servicer>>
    /\ SchedUnchanged
    /\ UNCHANGED aggVars
    /\ UNCHANGED adapterVars

\* riva_server.py:232-235  wait_for gives up after finals_timeout_s
EndTimeout ==
    /\ sess.pc = "end_wait" /\ FutureOf(sess.fut) = "pending"
    /\ item' = [item EXCEPT ![sess.fut + 1].future = "cancelled"]
    /\ sess' = Abort(sess, "INTERNAL")
    /\ UNCHANGED <<now, settings, servicer, wire, seqCtr, queue, runs>>
    /\ UNCHANGED aggVars
    /\ UNCHANGED adapterVars

\* riva_server.py:238-245  the generator is resumed after a final of the
\* end-of-stream loop
ResumeEnd ==
    /\ sess.pc = "yield_end"
    /\ LET d == EndLoop(sess, sess.pos + 1)
       IN  sess' = d.s /\ wire' = wire \o d.out
    /\ UNCHANGED <<now, settings, servicer>>
    /\ SchedUnchanged
    /\ UNCHANGED aggVars
    /\ UNCHANGED adapterVars

\* ------------------------------------------------------------ Recognize
\* the unary handler is back at "idle" with status st
UnaryDone(st) == [pc |-> "idle", calls |-> unary.calls + 1, status |-> st]

\* riva_server.py:247-255  a Recognize request is handled up to the model
\* call.  whole: request.audio holds whole samples.  The handler calls
\* self.model.recognize_waveform itself, on the event-loop thread, and does
\* not go through the scheduler.
RecognizeCall(linear_pcm, sample_rate_hertz, whole) ==
    /\ unary.pc = "idle" /\ unary.calls < MaxUnary
    /\ LET sr == IF sample_rate_hertz = 0 THEN SAMPLE_RATE ELSE sample_rate_hertz
       IN  unary' = IF ~linear_pcm \/ sr # SAMPLE_RATE
                    THEN UnaryDone("INVALID_ARGUMENT")
                    ELSE IF ~whole THEN UnaryDone("INTERNAL")
                    ELSE [unary EXCEPT !.pc = "model"]
    /\ UNCHANGED <<now, settings, wsVars, otherVars>>
    /\ SchedUnchanged
    /\ UNCHANGED aggVars
    /\ UNCHANGED streamVars

\* riva_server.py:255-264  recognize_waveform returns or raises
RecognizeReturn(raised) ==
    /\ unary.pc = "model"
    /\ unary' = UnaryDone(IF raised THEN "INTERNAL" ELSE "OK")
    /\ UNCHANGED <<now, settings, wsVars, otherVars>>
    /\ SchedUnchanged
    /\ UNCHANGED aggVars
    /\ UNCHANGED streamVars

\* the event loop is not inside a synchronous call: its tasks can be resumed
LoopFree == unary.pc # "model"

\* ----------------------------------------------- ws_server_nemo_ctc.py
\* --max-active (ws_server_nemo_ctc.py:169), small value
max_active == 2

\* kinds of inbound WebSocket messages: binary PCM16 (well-formed or with an
\* odd byte count) and the control messages eos and ping; any other text
\* changes nothing
WsMessages == {"pcm", "badpcm", "eos", "ping"}

\* --max-batch (ws_server_nemo_ctc.py:43), small value
ws_max_batch == 1

\* the 60 ms between two partials of a connection (ws_server_nemo_ctc.py:107),
\* in iterations of the decode loop
emit_gap == 2

\* admission lets one connection too many in
BusyOffByOne == Cardinality(conns) > max_active

\* ws_server_nemo_ctc.py:147  len(self.conns) >= max_active
Busy == Cardinality(conns) >= max_active

\* connection i, with the fields of r replaced
SockSet(i, r) == [sock EXCEPT ![i] = r]

\* ws_server_nemo_ctc.py:74-77  ws_handler of connection i exits: the finally
\* clause pops its sid, and the library closes the socket with code
WsLeave(i, code) ==
    /\ conns' = conns \ {sock[i].sid}
    /\ sock' = SockSet(i, [sock[i] EXCEPT !.pc = "closed", !.code = code])

\* ws_server_nemo_ctc.py:146-150, 51-57  a connection arrives and handler
\* runs up to its first await: ws.close(1013) when busy, else ws_handler
\* takes a sid, creates the stream (which may raise), registers the Conn and
\* starts to send hello
WsConnect(create_stream_raises) ==
    /\ Len(sock) < MaxConns
    /\ LET c == [pc |-> "closing", sid |-> 0, hello |-> FALSE, code |-> 0,
                 pcm_q |-> 0, eos |-> FALSE, fed |-> 0, text |-> "",
                 endpoint |-> FALSE, last_emit |-> 0 - emit_gap,
                 finalized |-> FALSE, partials |-> 0, finals |-> 0,
                 eos_finals |-> 0]
       IN  IF Busy
           THEN /\ sock' = Append(sock, c)
                /\ UNCHANGED <<conns, sid_counter>>
           ELSE /\ sid_counter' = sid_counter + 1
                /\ IF create_stream_raises
                   THEN /\ sock' = Append(sock, [c EXCEPT !.pc = "closed",
                                                          !.code = 1011])
                        /\ conns' = conns
                   ELSE /\ sock' = Append(sock, [c EXCEPT !.pc = "hello",
                                                          !.sid = sid_counter'])
                        /\ conns' = conns \cup {sid_counter'}
    /\ UNCHANGED <<now, settings, unary, otherVars>>
    /\ SchedUnchanged
    /\ UNCHANGED aggVars
    /\ UNCHANGED streamVars

\* ws_server_nemo_ctc.py:148-149  the close of a refused connection is done
WsRefused(i) ==
    /\ i \in DOMAIN sock /\ sock[i].pc = "closing"
    /\ sock' = SockSet(i, [sock[i] EXCEPT !.pc = "closed", !.code = 1013])
    /\ UNCHANGED <<now, settings, unary, conns, sid_counter, otherVars>>
    /\ SchedUnchanged
    /\ UNCHANGED aggVars
    /\ UNCHANGED streamVars

\* ws_server_nemo_ctc.py:57-58, 73  a send (hello or pong) completes, or
\* raises because the peer is gone
WsSent(i, ok) ==
    /\ i \in DOMAIN sock /\ sock[i].pc \in {"hello", "pong"}
    /\ IF ok
       THEN /\ sock' = SockSet(i, [sock[i] EXCEPT
                                     !.pc = "open",
                                     !.hello = @ \/ sock[i].pc = "hello"])
            /\ conns' = conns
       ELSE WsLeave(i, 1006)
    /\ UNCHANGED <<now, settings, unary, sid_counter, otherVars>>
    /\ SchedUnchanged
    /\ UNCHANGED aggVars
    /\ UNCHANGED streamVars

\* ws_server_nemo_ctc.py:58-73  the next message of connection i
WsMessage(i, m) ==
    /\ i \in DOMAIN sock /\ sock[i].pc = "open"
    /\ m = "pcm" => sock[i].pcm_q < MaxFrames
    /\ m = "eos" => ~sock[i].eos
    /\ IF m = "badpcm" THEN WsLeave(i, 1000)
       ELSE /\ conns' = conns
            /\ sock' = SockSet(i,
                          IF m = "pcm" THEN [sock[i] EXCEPT !.pcm_q = @ + 1]
                          ELSE IF m = "eos" THEN [sock[i] EXCEPT !.eos = TRUE]
                          ELSE [sock[i] EXCEPT !.pc = "pong"])
    /\ UNCHANGED <<now, settings, unary, sid_counter, otherVars>>
    /\ SchedUnchanged
    /\ UNCHANGED aggVars
    /\ UNCHANGED streamVars

\* ws_server_nemo_ctc.py:58, 74-77  the peer closes (the async for ends or an
\* await raises ConnectionClosed), or the handler task is cancelled while it
\* is suspended
WsExit(i, cancelled) ==
    /\ i \in DOMAIN sock /\ sock[i].pc \in {"hello", "open", "pong"}
    /\ WsLeave(i, IF cancelled THEN 1001 ELSE 1000)
    /\ UNCHANGED <<now, settings, unary, sid_counter, otherVars>>
    /\ SchedUnchanged
    /\ UNCHANGED aggVars
    /\ UNCHANGED streamVars

\* ws_server_nemo_ctc.py:88, 119  list(self.conns.values()): the registered
\* connections in the order they were registered, from connection k on
RECURSIVE ConnList(_)
ConnList(k) ==
    IF k > Len(sock) THEN <<>>
    ELSE IF sock[k].sid \in conns /\ sock[k].sid # 0
         THEN <<k>> \o ConnList(k + 1)
         ELSE ConnList(k + 1)

\* ws_server_nemo_ctc.py:88-99  the queued PCM of each connection is fed to
\* its stream and the decode-ready streams are collected, until max_batch
\* of them are found
RECURSIVE FeedLoop(_, _, _)
FeedLoop(sk, list, batch) ==
    IF list = <<>> THEN [sock |-> sk, batch |-> batch]
    ELSE LET i == Head(list)
             s1 == [sk EXCEPT ![i].fed = @ + sk[i].pcm_q, ![i].pcm_q = 0]
         IN  IF s1[i].fed > 0
             THEN IF Cardinality(batch) + 1 >= ws_max_batch
                  THEN [sock |-> s1, batch |-> batch \cup {i}]
                  ELSE FeedLoop(s1, Tail(list), batch \cup {i})
             ELSE FeedLoop(s1, Tail(list), batch)

\* ws_server_nemo_ctc.py:102-116  the batch is decoded one step: the
\* recognizer reports the hypothesis txt and the endpoint state ep; a partial
\* goes to each connection of the batch whose last one is old enough
DecodeBatch(sk, batch, txt, ep, it) ==
    [i \in DOMAIN sk |->
        IF i \notin batch THEN sk[i]
        ELSE LET t == IF txt # "" THEN txt ELSE sk[i].text
                 due == it - sk[i].last_emit >= emit_gap /\ t # ""
             IN  [sk[i] EXCEPT
                    !.fed = @ - 1,
                    !.text = t,
                    !.endpoint = ep,
                    !.last_emit = IF due THEN it ELSE @,
                    !.partials = IF due /\ sk[i].pc # "closed" THEN @ + 1 ELSE @]]

\* ws_server_nemo_ctc.py:119-141  the finalize loop from the head of todo,
\* up to its next await of a send or to its end.  at is "endpoint" before
\* the endpoint test of the head and "eos" after it.
RECURSIVE FinalizeLoop(_, _, _)
FinalizeLoop(sk, todo, at) ==
    IF todo = <<>> THEN [sock |-> sk, todo |-> <<>>, pc |-> "sleep"]
    ELSE LET i == Head(todo)
         IN  IF at = "endpoint"
             THEN IF sk[i].finalized THEN FinalizeLoop(sk, Tail(todo), "endpoint")
                  ELSE IF sk[i].endpoint /\ sk[i].text # ""
                       THEN [sock |-> sk, todo |-> todo, pc |-> "send_endpoint"]
                       ELSE FinalizeLoop(sk, todo, "eos")
             ELSE IF sk[i].fed > 0 THEN FinalizeLoop(sk, Tail(todo), "endpoint")
                  ELSE IF sk[i].eos
                       THEN IF sk[i].text # "" /\ ~sk[i].finalized
                            THEN [sock |-> sk, todo |-> todo, pc |-> "send_eos"]
                            ELSE FinalizeLoop([sk EXCEPT ![i].finalized = TRUE],
                                              Tail(todo), "endpoint")
                       ELSE FinalizeLoop(sk, Tail(todo), "endpoint")

\* ws_server_nemo_ctc.py:85  now = time.perf_counter() of the iteration after
\* n iterations, in iterations of the loop; the clock is followed for
\* MaxIters iterations
IterClock(n) == IF n < MaxIters THEN n + 1 ELSE n

\* ws_server_nemo_ctc.py:82-141  the sleep of decode_loop is over: one
\* iteration runs up to its first await
DecodeIterate(txt, ep) ==
    /\ decode.pc = "sleep"
    /\ LET it == IterClock(decode.iter)
           fd == FeedLoop(sock, ConnList(1), {})
           s1 == IF fd.batch = {} THEN fd.sock
                 ELSE DecodeBatch(fd.sock, fd.batch, txt, ep, it)
           fl == FinalizeLoop(s1, ConnList(1), "endpoint")
       IN  /\ fd.batch = {} => (txt = "" /\ ~ep)
           /\ sock' = fl.sock
           /\ decode' = [pc |-> fl.pc, iter |-> it, todo |-> fl.todo]
    /\ UNCHANGED <<now, settings, unary, conns, sid_counter, http, testVars>>
    /\ SchedUnchanged
    /\ UNCHANGED aggVars
    /\ UNCHANGED streamVars

\* ws_server_nemo_ctc.py:126-129, 137-141  the send of a final frame is over
\* (it raises when the peer is gone, and the exception is swallowed); the
\* finalize loop goes on to its next await
DecodeSent(ok) ==
    /\ decode.pc \in {"send_endpoint", "send_eos"}
    /\ LET i == Head(decode.todo)
           got == ok /\ sock[i].pc # "closed"
           s1 == [sock EXCEPT
                    ![i].finals = IF got THEN @ + 1 ELSE @,
                    ![i].eos_finals = IF got /\ sock[i].eos THEN @ + 1 ELSE @,
                    ![i].finalized = @ \/ decode.pc = "send_eos"]
           fl == IF decode.pc = "send_endpoint"
                 THEN FinalizeLoop(s1, decode.todo, "eos")
                 ELSE FinalizeLoop(s1, Tail(decode.todo), "endpoint")
       IN  /\ ok => sock[i].pc # "closed"
           /\ sock' = fl.sock
           /\ decode' = [decode EXCEPT !.pc = fl.pc, !.todo = fl.todo]
    /\ UNCHANGED <<now, settings, unary, conns, sid_counter, http, testVars>>
    /\ SchedUnchanged
    /\ UNCHANGED aggVars
    /\ UNCHANGED streamVars

\* --------------------------------------------- server.py openai_transcribe
\* what the body of a request turns out to be once it is read and decoded
HttpBodies == {"ok", "invalid_pcm", "too_long"}

HttpSet(i, r) == [http EXCEPT ![i] = r]

\* server.py:104-137  a request arrives and is handled up to the await that
\* reads its body: 413 for a declared length over the limit, 429 when the
\* queue is full at that moment
HttpArrive(too_large) ==
    /\ Len(http) < MaxHttp
    /\ http' = Append(http,
                 IF too_large THEN [pc |-> "done", status |-> 413, fut |-> 0]
                 ELSE IF full(queue) THEN [pc |-> "done", status |-> 429, fut |-> 0]
                 ELSE [pc |-> "read", status |-> 0, fut |-> 0])
    /\ UNCHANGED <<now, settings, unary, wsVars, decode, testVars>>
    /\ SchedUnchanged
    /\ UNCHANGED aggVars
    /\ UNCHANGED streamVars

\* server.py:128-159  the body of request i has been read: it is decoded and
\* measured, and the waveform is submitted.  QueueFull from submit is caught
\* nowhere: the framework answers 500.
HttpBodyRead(i, body) ==
    /\ i \in DOMAIN http /\ http[i].pc = "read"
    /\ IF body # "ok"
       THEN /\ http' = HttpSet(i, [pc |-> "done", fut |-> 0,
                                   status |-> IF body = "invalid_pcm" THEN 415
                                              ELSE 413])
            /\ SchedUnchanged
       ELSE /\ submit(1, "http", <<0, 0>>, "t")
            /\ http' = HttpSet(i, IF full(queue)
                                  THEN [pc |-> "done", status |-> 500, fut |-> seqCtr]
                                  ELSE [pc |-> "wait", status |-> 0, fut |-> seqCtr])
    /\ UNCHANGED <<now, settings, unary, wsVars, decode, testVars>>
    /\ UNCHANGED aggVars
    /\ UNCHANGED streamVars

\* server.py:160-169  the wait for the future of request i ends: with the
\* text (200), with the worker's exception, which nothing catches (500), or
\* after max_queue_wait_s, when the future is cancelled (503)
HttpWaitEnds(i) ==
    /\ i \in DOMAIN http /\ http[i].pc = "wait"
    /\ LET f == FutureOf(http[i].fut)
       IN  /\ http' = HttpSet(i, [http[i] EXCEPT
                                    !.pc = "done",
                                    !.status = IF f = "result" THEN 200
                                               ELSE IF f = "exception" THEN 500
                                               ELSE 503])
           /\ item' = IF f = "pending"
                      THEN [item EXCEPT ![http[i].fut + 1].future = "cancelled"]
                      ELSE item
    /\ UNCHANGED <<now, settings, unary, wsVars, decode, testVars, seqCtr, queue, runs>>
    /\ UNCHANGED aggVars
    /\ UNCHANGED streamVars

\* ---------------------------------- pcm16_to_f32 and file_to_pcm16_mono_16k
\* every value of a signed 16-bit sample
Samples == (0 - 2^15) .. (2^15 - 1)

\* a PCM16 sample s before its conversion
NewSample(s) == [pc |-> "pcm16", s |-> s, x |-> 0, out |-> 0]

Abs(n) == IF n < 0 THEN 0 - n ELSE n

\* the spacing of the float32 values around the magnitude n: the significand
\* has 24 bits
RECURSIVE Ulp(_, _)
Ulp(n, u) == IF n \div u < 2^24 THEN u ELSE Ulp(n, 2 * u)

\* a float32 is written as the integer number of its 2^-15 parts; the
\* result of an operation is rounded to the nearest float32, ties to even
RoundF32(n) ==
    LET u == Ulp(Abs(n), 1)
        q == Abs(n) \div u
        r == Abs(n) % u
        m == IF 2 * r > u \/ (2 * r = u /\ q % 2 = 1) THEN (q + 1) * u ELSE q * u
    IN  IF n < 0 THEN 0 - m ELSE m

\* riva_server.py:26-27  astype(np.float32) / 32768.0: the sample s becomes
\* the float32 of s parts of 2^-15
pcm16_to_f32(s) == RoundF32(RoundF32(s * 2^15) \div 32768)

\* np.clip(audio, -1.0, 1.0)
Clip(x) == IF x < 0 - 2^15 THEN 0 - 2^15 ELSE IF x > 2^15 THEN 2^15 ELSE x

\* astype(np.int16) of the float32 x: the fraction is dropped and the integer
\* is reduced to 16 bits
ToInt16(x) ==
    LET i == IF x < 0 THEN 0 - (Abs(x) \div 2^15) ELSE x \div 2^15
    IN  ((i + 2^15) % 2^16) - 2^15

\* the scale of the way back is 32767
f32_to_pcm16_32767(x) == ToInt16(RoundF32(Clip(x) * 32767))

\* test/utils.py:50  (np.clip(audio, -1.0, 1.0) * 32768.0).astype(np.int16)
f32_to_pcm16(x) == ToInt16(RoundF32(Clip(x) * 32768))

SampleFrame ==
    /\ UNCHANGED <<now, settings, unary, wsVars, http, decode, decider>>
    /\ SchedUnchanged
    /\ UNCHANGED aggVars
    /\ UNCHANGED streamVars

\* riva_server.py:26-27  the sample is converted to float32
ToFloat ==
    /\ sample.pc = "pcm16"
    /\ sample' = [sample EXCEPT !.pc = "f32", !.x = pcm16_to_f32(sample.s)]
    /\ SampleFrame

\* test/utils.py:50  the float is converted to PCM16
ToPcm16 ==
    /\ sample.pc = "f32"
    /\ sample' = [sample EXCEPT !.pc = "back", !.out = f32_to_pcm16(sample.x)]
    /\ SampleFrame

\* ------------------------------------------- test/utils/audio.py EOSDecider
\* EOS_QUIET_MS: the default, and a short and an odd value (audio.py:37)
DefaultQuiet == 140
QuietChoices == {50, 161}

\* asyncio.sleep(0.010) of wait_for_settle, in ms (audio.py:122)
poll_ms == 10

\* the end-word floor of should_flush, in ms (audio.py:104)
end_word_floor_ms == 80

\* max_wait_ms arguments of wait_for_settle
MaxWaits == {0, 30}

\* time.perf_counter() of the client when the decider is built, in ms
StartClock == 10

\* the last reading of the clock
EndClock == StartClock + MaxPolls * poll_ms

Max(a, b) == IF a >= b THEN a ELSE b

\* no call of should_flush was made in the present state of the decider
NoResult ==
    [called |-> FALSE, silence_ms |-> 0, has_end_word |-> FALSE, flush |-> FALSE]

\* audio.py:34-45  __init__; an unset timestamp (None) is 0, and result is
\* what a call of should_flush made in the present state saw and returned
NewDecider(q) ==
    [quiet_ms |-> q, vad_off_since |-> 0, last_partial_ts |-> 0,
     pending_word |-> FALSE, has_end_word |-> FALSE, t |-> StartClock,
     result |-> NoResult, wpc |-> "idle", deadline |-> 0, wake |-> 0]

\* audio.py:83-94  observed_silence_ms
observed_silence_ms(d) ==
    LET vad_silence == IF d.vad_off_since # 0 THEN d.t - d.vad_off_since ELSE 0
        decoder_quiet == IF d.last_partial_ts # 0 THEN d.t - d.last_partial_ts ELSE 0
    IN  Max(vad_silence, decoder_quiet)

\* audio.py:96-107  should_flush
should_flush(d) ==
    LET silence_ms == observed_silence_ms(d)
    IN  IF silence_ms >= d.quiet_ms THEN TRUE
        ELSE IF d.has_end_word
                /\ silence_ms >= Max(end_word_floor_ms, d.quiet_ms \div 2)
             THEN TRUE
             ELSE FALSE

DeciderFrame ==
    /\ UNCHANGED <<now, settings, unary, wsVars, http, decode, sample>>
    /\ SchedUnchanged
    /\ UNCHANGED aggVars
    /\ UNCHANGED streamVars

\* the clock of the client advances by one poll interval
DeciderTick ==
    /\ decider.t < EndClock
    /\ decider' = [decider EXCEPT !.t = @ + poll_ms, !.result = NoResult]
    /\ DeciderFrame

\* audio.py:47-53  update_vad
update_vad(state) ==
    /\ decider' = [decider EXCEPT
                     !.result = NoResult,
                     !.vad_off_since = IF state = "off"
                                       THEN (IF @ # 0 THEN @ ELSE decider.t)
                                       ELSE 0]
    /\ DeciderFrame

\* audio.py:55-59  update_partial, called with the time of the event
update_partial ==
    /\ decider' = [decider EXCEPT !.last_partial_ts = decider.t,
                                  !.vad_off_since = 0,
                                  !.result = NoResult]
    /\ DeciderFrame

\* audio.py:61-63  set_pending_word
set_pending_word ==
    /\ decider' = [decider EXCEPT !.pending_word = TRUE, !.result = NoResult]
    /\ DeciderFrame

\* EndWord restarts the VAD-off clock whatever it held
set_end_word_restarts ==
    /\ decider' = [decider EXCEPT
                     !.result = NoResult,
                     !.has_end_word = TRUE,
                     !.vad_off_since = decider.t]
    /\ DeciderFrame

\* audio.py:65-70  set_end_word
set_end_word ==
    /\ decider' = [decider EXCEPT
                     !.result = NoResult,
                     !.has_end_word = TRUE,
                     !.vad_off_since = IF @ = 0 THEN decider.t ELSE @]
    /\ DeciderFrame

\* audio.py:72-80  get_pending_word and clear_pending_word
clear_pending_word ==
    /\ decider' = [decider EXCEPT !.pending_word = FALSE, !.result = NoResult]
    /\ DeciderFrame

\* audio.py:96-107  a call of should_flush
ShouldFlushCall ==
    /\ decider' = [decider EXCEPT
                     !.result = [called |-> TRUE,
                                 silence_ms |-> observed_silence_ms(decider),
                                 has_end_word |-> decider.has_end_word,
                                 flush |-> should_flush(decider)]]
    /\ DeciderFrame

\* the loop goes on until should_flush holds, whatever the deadline
WaitLoopNoDeadline(d, dl) ==
    IF should_flush(d)
    THEN [d EXCEPT !.wpc = "returned", !.deadline = dl]
    ELSE [d EXCEPT !.wpc = "sleep", !.deadline = dl, !.wake = d.t + poll_ms]

\* audio.py:119-122  one pass of the loop of wait_for_settle, at the head of
\* the loop with the deadline dl
WaitLoop(d, dl) ==
    IF d.t < dl
    THEN IF should_flush(d)
         THEN [d EXCEPT !.wpc = "returned", !.deadline = dl]
         ELSE [d EXCEPT !.wpc = "sleep", !.deadline = dl, !.wake = d.t + poll_ms]
    ELSE [d EXCEPT !.wpc = "returned", !.deadline = dl]

\* audio.py:115-122  wait_for_settle is called and runs to its first sleep
WaitStart(max_wait_ms) ==
    /\ decider.wpc = "idle"
    /\ decider.t + max_wait_ms + poll_ms <= EndClock
    /\ decider' = WaitLoop([decider EXCEPT !.result = NoResult],
                           decider.t + max_wait_ms)
    /\ DeciderFrame

\* audio.py:119-122  the sleep of wait_for_settle is over
WaitPoll ==
    /\ decider.wpc = "sleep" /\ decider.t >= decider.wake
    /\ decider' = WaitLoop([decider EXCEPT !.result = NoResult],
                           decider.deadline)
    /\ DeciderFrame

\* the scheduler as on_startup builds and starts it (server.py:63-74), and
\* the servers around it before their first request
InitServers ==
    /\ now = StartTime
    /\ seqCtr = 0
    /\ item = <<>>
    /\ queue = <<>>
    /\ agg = "get"
    /\ prio = 0 /\ first = 0
    /\ batch_items = <<>>
    /\ pushed_back = <<>>
    /\ deadline = 0
    /\ p0_at_anchor = FALSE
    /\ running = 0
    /\ faults = 0
    /\ runs = <<>>
    /\ unary = [pc |-> "idle", calls |-> 0, status |-> ""]
    /\ conns = {}
    /\ sid_counter = 0
    /\ sock = <<>>
    /\ http = <<>>
    /\ decode = [pc |-> "sleep", iter |-> 0, todo |-> <<>>]

\* no test client runs beside the servers
InitScheduler ==
    /\ InitServers
    /\ decider = NewDecider(DefaultQuiet)
    /\ sample = NewSample(0)

\* the scheduler serving clients that submit directly; no stream is open
Init ==
    /\ InitScheduler
    /\ settings \in SettingsChoices
    /\ servicer = [max_ctx_samps |-> 1, seg_overlap_bytes |-> 2]
    /\ sess = NewSession("off")
    /\ wire = <<>>

\* one StreamingRecognize call is accepted by a server other clients use too
InitShared ==
    /\ InitScheduler
    /\ settings = [microbatch_max_batch |-> 3, queue_max_factor |-> 1,
                   microbatch_window_ms |-> 1]
    /\ servicer = [max_ctx_samps |-> 1, seg_overlap_bytes |-> 0]
    /\ sess = NewSession("first")
    /\ wire = <<>>

\* one StreamingRecognize call is accepted
InitStream ==
    /\ InitScheduler
    /\ settings \in StreamSettingsChoices
    /\ servicer \in ServicerChoices
    /\ sess = NewSession("first")
    /\ wire = <<>>

Next ==
    \/ \E p \in Prios : EnvSubmit(p)
    \/ \E s \in 0..(MaxItems - 1) : EnvAbandon(s)
    \/ AggGet
    \/ AggCollect
    \/ AggWindowClose
    \/ WorkerReturn
    \/ WorkerRaise
    \/ Tick

Spec == Init /\ [][Next]_vars

NextStream ==
    \/ \E c, l, i \in BOOLEAN, r \in StreamRates : RecvFirst(c, l, i, r)
    \/ \E n \in ChunkSizes : sess.chunks < MaxChunks /\ RecvChunk(n)
    \/ TickResult
    \/ TickError
    \/ TickTimeout
    \/ ResumePartial
    \/ ResumeFinal
    \/ RecvEnd
    \/ TailResult
    \/ TailError
    \/ TailTimeout
    \/ ResumeTail
    \/ EndWake
    \/ EndTimeout
    \/ ResumeEnd
    \/ AggGet
    \/ AggCollect
    \/ AggWindowClose
    \/ WorkerReturn
    \/ WorkerRaise
    \/ Tick

\* one stream alone against the scheduler
SpecStream == InitStream /\ [][NextStream]_vars

NextShared ==
    \/ \E c, l, i \in BOOLEAN : RecvFirst(c, l, i, SAMPLE_RATE)
    \/ \E n \in SharedChunkSizes : sess.chunks < MaxChunks /\ RecvChunk(n)
    \/ TickResult
    \/ ResumePartial
    \/ ResumeFinal
    \/ RecvEnd
    \/ TailResult
    \/ ResumeTail
    \/ EndWake
    \/ ResumeEnd
    \/ EnvSubmit(1)
    \/ AggGet
    \/ AggCollect
    \/ AggWindowClose
    \/ WorkerReturn
    \/ Tick

\* one stream of full-length chunks sharing the scheduler with the ticks of
\* other clients; no timeout expires and no worker call raises
SpecShared == InitShared /\ [][NextShared]_vars

\* one stream that stays open, of full-length chunks and without interim
\* results, sharing the scheduler with the ticks of other clients; no timeout
\* expires and no worker call raises
NextDrain ==
    \/ RecvFirst(TRUE, TRUE, FALSE, SAMPLE_RATE)
    \/ \E n \in SharedChunkSizes : sess.chunks < MaxDrainChunks /\ RecvChunk(n)
    \/ TickResult
    \/ ResumeFinal
    \/ EnvSubmit(1)
    \/ AggGet
    \/ AggCollect
    \/ AggWindowClose
    \/ WorkerReturn
    \/ Tick

SpecDrain == InitShared /\ [][NextDrain]_vars

\* the gRPC server handling unary requests beside clients of the scheduler
InitUnary ==
    /\ InitScheduler
    /\ settings = [microbatch_max_batch |-> 2, queue_max_factor |-> 1,
                   microbatch_window_ms |-> 1]
    /\ servicer = [max_ctx_samps |-> 1, seg_overlap_bytes |-> 0]
    /\ sess = NewSession("off")
    /\ wire = <<>>

NextUnary ==
    \/ \E l, w \in BOOLEAN, r \in SampleRates : RecognizeCall(l, r, w)
    \/ \E raised \in BOOLEAN : RecognizeReturn(raised)
    \/ LoopFree /\ EnvSubmit(1)
    \/ LoopFree /\ AggGet
    \/ LoopFree /\ AggCollect
    \/ LoopFree /\ AggWindowClose
    \/ LoopFree /\ WorkerReturn
    \/ Tick

SpecUnary == InitUnary /\ [][NextUnary]_vars

\* the WebSocket server alone: no connection yet
InitWs == InitUnary

NextWs ==
    \/ \E r \in BOOLEAN : WsConnect(r)
    \/ \E i \in 1..MaxConns : WsRefused(i)
    \/ \E i \in 1..MaxConns, ok \in BOOLEAN : WsSent(i, ok)
    \/ \E i \in 1..MaxConns, m \in WsMessages : WsMessage(i, m)
    \/ \E i \in 1..MaxConns, c \in BOOLEAN : WsExit(i, c)

SpecWs == InitWs /\ [][NextWs]_vars

\* the WebSocket server with its decode loop
NextDecode ==
    \/ \E r \in BOOLEAN : Len(sock) < MaxStreams /\ WsConnect(r)
    \/ \E i \in 1..MaxStreams, ok \in BOOLEAN : WsSent(i, ok)
    \/ \E i \in 1..MaxStreams, m \in WsMessages : WsMessage(i, m)
    \/ \E i \in 1..MaxStreams, c \in BOOLEAN : WsExit(i, c)
    \/ \E t \in Texts, e \in BOOLEAN :
          decode.iter < MaxIters /\ DecodeIterate(t, e)
    \/ \E ok \in BOOLEAN : DecodeSent(ok)

SpecDecode == InitWs /\ [][NextDecode]_vars

\* the decode loop runs for ever beside clients that connect, stream PCM and
\* leave;
\* the loop's sleep always ends (asyncio.sleep(tick), ws_server_nemo_ctc.py:143)
DecodeStep == \E t \in Texts : DecodeIterate(t, FALSE)

NextStreaming ==
    \/ Len(sock) < MaxStreams /\ WsConnect(FALSE)
    \/ \E i \in 1..MaxStreams : WsSent(i, TRUE)
    \/ \E i \in 1..MaxStreams : WsMessage(i, "pcm")
    \/ \E i \in 1..MaxStreams : WsExit(i, FALSE)
    \/ DecodeStep

FairDecode == InitWs /\ [][NextStreaming]_vars /\ WF_vars(DecodeStep)

\* a client's settle gate: its events in any order, and one wait_for_settle
InitDecider ==
    /\ InitServers
    /\ settings = [microbatch_max_batch |-> 2, queue_max_factor |-> 1,
                   microbatch_window_ms |-> 1]
    /\ servicer = [max_ctx_samps |-> 1, seg_overlap_bytes |-> 0]
    /\ sess = NewSession("off")
    /\ wire = <<>>
    /\ decider \in {NewDecider(q) : q \in QuietChoices}
    /\ sample = NewSample(0)

NextDecider ==
    \/ DeciderTick
    \/ \E st \in {"on", "off"} : update_vad(st)
    \/ update_partial
    \/ set_pending_word
    \/ set_end_word
    \/ clear_pending_word
    \/ ShouldFlushCall
    \/ \E w \in MaxWaits : WaitStart(w)
    \/ WaitPoll

SpecDecider == InitDecider /\ [][NextDecider]_vars

\* one sample of any value goes to float32 and back
InitSample ==
    /\ InitServers
    /\ settings = [microbatch_max_batch |-> 2, queue_max_factor |-> 1,
                   microbatch_window_ms |-> 1]
    /\ servicer = [max_ctx_samps |-> 1, seg_overlap_bytes |-> 0]
    /\ sess = NewSession("off")
    /\ wire = <<>>
    /\ decider = NewDecider(DefaultQuiet)
    /\ sample \in {NewSample(s) : s \in Samples}

NextSample ==
    \/ ToFloat
    \/ ToPcm16

SpecSample == InitSample /\ [][NextSample]_vars

\* the client's clock advances and its sleeping coroutine is resumed
FairDecider == SpecDecider /\ WF_vars(DeciderTick) /\ WF_vars(WaitPoll)

\* the HTTP endpoint under concurrent requests
NextHttp ==
    \/ \E l \in BOOLEAN : HttpArrive(l)
    \/ \E i \in 1..MaxHttp, b \in HttpBodies : HttpBodyRead(i, b)
    \/ \E i \in 1..MaxHttp : HttpWaitEnds(i)
    \/ AggGet
    \/ AggCollect
    \/ AggWindowClose
    \/ WorkerReturn
    \/ WorkerRaise
    \/ Tick

SpecHttp == InitUnary /\ [][NextHttp]_vars

\* every suspended task is resumed by the event loop, every worker call ends
\* and the clock advances
FairSpec ==
    /\ Spec
    /\ WF_vars(AggGet) /\ WF_vars(AggCollect) /\ WF_vars(AggWindowClose)
    /\ WF_vars(WorkerReturn \/ WorkerRaise)
    /\ WF_vars(Tick)

\* ------------------------------------------------------------------ claims
InBatch(s) == s \in Range(batch_items)
Accepted(s) == s < seqCtr /\ item[s + 1].accepted

\* C1: at most one run_batch call executes at any time, and while one
\* executes the aggregator is suspended on it (it takes no anchor and starts
\* no other call).
C1_SingleWorkerCall == running <= 1 /\ (running = 1 => agg = "run")

\* a worker call is executing while submits of other clients have queued up
C1_Witness == running = 1 /\ Len(queue) >= 2

\* C2: if the queue held a priority-0 entry when the anchor was taken, the
\* batch handed to the worker consists of priority-0 items.
C2_AnchorPriority ==
    (agg = "run" /\ p0_at_anchor) =>
        \A i \in 1..Len(batch_items) : item[batch_items[i] + 1].priority = 0

\* a priority-0 batch runs while an older priority-1 item waits in the queue
C2_Witness ==
    /\ agg = "run" /\ p0_at_anchor
    /\ \E i \in 1..Len(queue) :
          PrioOf(queue[i]) = 1 /\ SeqOf(queue[i]) < batch_items[1]

SegFinals == {j \in DOMAIN wire : wire[j].final /\ wire[j].seg >= 0}

\* C3: the finals of cut segments appear on the wire in increasing segment
\* index, whether the mid-stream drain or the end-of-stream loop yields them.
C3_FinalsInOrder ==
    \A i, j \in SegFinals : i < j => wire[i].seg < wire[j].seg

\* the end-of-stream loop has yielded the finals of two segments that were
\* pending together
C3_Witness ==
    /\ sess.pc = "yield_end" /\ sess.pos = 2
    /\ \E i, j \in SegFinals : i < j /\ wire[i].seg = 0 /\ wire[j].seg = 1

C4_DoneIsFinal ==
    \A k \in DOMAIN item :
        item[k].future # "pending" => item'[k].future = item[k].future

C4_Held(s) ==
    \/ \E i \in 1..Len(queue) : SeqOf(queue[i]) = s
    \/ \E i \in 1..Len(pushed_back) : SeqOf(pushed_back[i]) = s
    \/ InBatch(s)

C4_StillRun ==
    \A s \in 0..(seqCtr - 1) :
        /\ Accepted(s) => (C4_Held(s) \/ runs[s + 1] > 0)
        /\ (runs[s + 1] > 0 /\ ~(agg = "run" /\ InBatch(s)))
                => item[s + 1].future # "pending"

\* C4: a future that is done never changes again; no accepted item leaves
\* the queue except into a batch (cancelled ones included); and once the
\* batch of an item has come back, its future is done.
C4_CompletedOnce == [][C4_DoneIsFinal]_vars /\ [](C4_StillRun)

\* a batch holding a cancelled item and a pending one is being run
C4_Witness ==
    /\ agg = "run"
    /\ \E c, o \in Range(batch_items) :
          item[c + 1].future = "cancelled" /\ item[o + 1].future = "pending"

\* C5: every accepted item's future is eventually done (result, error or
\* cancelled by its caller).
C5_EventuallyResolved ==
    \A s \in 0..(MaxItems - 1) :
        Accepted(s) ~> (s < seqCtr /\ item[s + 1].future # "pending")

TickItems == {k \in DOMAIN item : item[k].owner = "tick"}
WaveformBytes(k) == item[k].waveform[2] - item[k].waveform[1]
RxAt(k) == item[k].waveform[2]

\* C6: ctx_buf never holds more than max_ctx_bytes once a chunk has been
\* handled, and no tick waveform has more than max_ctx_samps samples.
C6_ContextBounded ==
    /\ sess.ctx_buf <= max_ctx_bytes
    /\ \A k \in TickItems : WaveformBytes(k) \div BYTES_PER_SAMPLE <= max_ctx_samps

Partials == {j \in DOMAIN wire : ~wire[j].final}

C7_Cadence ==
    /\ \A k \in TickItems :
          /\ RxAt(k) >= step_bytes
          /\ \A j \in Partials :
                wire[j].rx < RxAt(k) => RxAt(k) - wire[j].rx >= step_bytes
    /\ \A j \in Partials :
          \E k \in TickItems : RxAt(k) = wire[j].rx /\ item[k].future = "result"

C7_Decimation ==
    \A i, j \in Partials :
        (i < j /\ wire[j].hot /\ ~\E m \in Partials : i < m /\ m < j)
            => wire[j].tick - wire[i].tick >= decimation_min_interval_s

\* C7: a tick is submitted, and hence a partial emitted, only after at least
\* step_bytes of audio received since the last emitted partial (or the start
\* of the stream); and two consecutive partials whose later tick found the
\* queue hot have tick times at least decimation_min_interval_s apart.
C7_CadenceAndDecimation == C7_Cadence /\ (decimation_when_hot => C7_Decimation)

\* two partials are on the wire, the tick of the later found the queue hot
C7_Witness ==
    \E i, j \in Partials : i < j /\ wire[j].hot

C8_SubmitStep ==
    seqCtr' = seqCtr + 1 =>
        IF Len(queue) >= maxsize
        THEN queue' = queue /\ ~item'[seqCtr'].accepted
        ELSE /\ Len(queue') = Len(queue) + 1
             /\ \E i \in 1..Len(queue') : SeqOf(queue'[i]) = seqCtr
             /\ item'[seqCtr'].accepted
             /\ item'[seqCtr'].future = "pending"

\* C8: the queue never holds more than maxsize entries; a submit on a full
\* queue adds nothing, any other submit adds exactly one entry and leaves a
\* pending future.
C8_Bounded == [](qsize <= maxsize) /\ [][C8_SubmitStep]_vars

\* a submit was refused on a full queue
C8_Witness ==
    /\ qsize = maxsize
    /\ \E k \in DOMAIN item : ~item[k].accepted

\* C9: during assembly no dequeued entry of higher priority than the batch is
\* set aside: the batch adopts the priority of any such entry.
C9_AlwaysPreempts ==
    agg = "collect" =>
        \A i \in 1..Len(pushed_back) : PrioOf(pushed_back[i]) >= prio

\* C10: when a batch is handed to the worker, every accepted item of the same
\* priority submitted before one of its items has been handed over already
\* (in this batch or an earlier one).
C10_FifoWithinPriority ==
    agg = "run" =>
        \A i \in 1..Len(batch_items) :
            \A a \in 0..(batch_items[i] - 1) :
                (Accepted(a) /\ item[a + 1].priority = item[batch_items[i] + 1].priority)
                    => runs[a + 1] > 0

C11_RaiseStep ==
    faults' = faults + 1 =>
        /\ \A k \in DOMAIN item :
              IF InBatch(k - 1) /\ item[k].future = "pending"
              THEN item'[k].future = "exception"
              ELSE item'[k] = item[k]
        /\ agg' # "dead"
        /\ queue # <<>> =>
              /\ agg' \in {"collect", "run"}
              /\ batch_items' = <<SeqOf(Head(queue))>>

\* C11: when run_batch_fn raises, every future of that batch that is not done
\* gets the exception, every other item is left as it was, and the aggregator
\* goes round its loop: it is not dead, and takes the next anchor at once when
\* the queue holds one.
C11_ErrorStaysInBatch == [][C11_RaiseStep]_vars

\* a batch has failed, an item of it holds the exception, and the next batch
\* is being run with a future still pending
C11_Witness ==
    /\ faults = 1 /\ agg = "run"
    /\ \E k \in DOMAIN item : item[k].future = "exception"
    /\ \E s \in Range(batch_items) : item[s + 1].future = "pending"

TailItems == {k \in DOMAIN item : item[k].owner = "tail"}
SegItems == {k \in DOMAIN item : item[k].owner = "seg"}
\* seg_idx of the segment submitted as item k: segments are numbered in the
\* order they are cut
SegIdxOf(k) == Cardinality({j \in SegItems : j < k})
\* how many finals of segment idx (-1: the tail) are on the wire
FinalsOf(idx) == Cardinality({j \in DOMAIN wire : wire[j].final /\ wire[j].seg = idx})
\* the RPC is over
RpcOver == sess.pc \in {"done", "aborted", "crashed"}
\* an item of the stream got the worker's exception or was given up on
StreamTrouble ==
    \E k \in DOMAIN item :
        item[k].owner # "env" /\ item[k].future \in {"exception", "cancelled"}

\* C12: once the RPC is over after the request iterator ended, with no
\* inference error and no timeout on the stream's items, the residual
\* full_buf was submitted exactly once, at priority 0, and its final is on the
\* wire, and the final of every segment cut is on the wire exactly once.
C12_TerminalFlush ==
    (RpcOver /\ (sess.pc = "done" \/ TailItems # {}) /\ ~StreamTrouble) =>
        /\ Cardinality(TailItems) <= 1
        /\ \A k \in TailItems :
              item[k].accepted /\ item[k].priority = 0 /\ FinalsOf(-1) = 1
        /\ \A k \in SegItems : FinalsOf(SegIdxOf(k)) = 1

\* C13: a submit of the stream (tick, segment or tail) that the full queue
\* rejects ends the RPC with status RESOURCE_EXHAUSTED.
C13_QueueFullIsBusy ==
    \A k \in DOMAIN item :
        (item[k].owner # "env" /\ ~item[k].accepted) =>
            (RpcOver /\ sess.status = "RESOURCE_EXHAUSTED")

\* C14: the unary Recognize handler never executes the model while a batch
\* started by the aggregator is in flight in the worker thread.
C14_ModelOwnedByWorker == ~(unary.pc = "model" /\ running > 0)

\* connections whose ws_handler is running
WsLive == {i \in DOMAIN sock : sock[i].pc \in {"hello", "open", "pong"}}

C15_Slots ==
    /\ Cardinality(conns) <= max_active
    /\ conns = {sock[i].sid : i \in WsLive}
    /\ Cardinality(WsLive) = Cardinality(conns)
    /\ \A i \in DOMAIN sock :
          sock[i].pc = "closing" \/ sock[i].code = 1013 =>
              sock[i].sid = 0 /\ ~sock[i].hello

C15_Arrival ==
    (Len(sock') = Len(sock) + 1 /\ Cardinality(conns) >= max_active) =>
        conns' = conns /\ sock'[Len(sock')].pc = "closing"

\* C15: never more than max_active connections are registered; the
\* registered sids are those of the running handlers (a handler that exits,
\* however it does, releases its slot); a connection that arrives with
\* max_active registered is closed with 1013, never registered, never sent
\* hello.
C15_Admission == [](C15_Slots) /\ [][C15_Arrival]_vars

\* a connection was refused with 1013 while max_active were registered, and
\* since then a handler that had been sent hello has exited and released its
\* slot
C15_Witness ==
    /\ Cardinality(conns) = max_active - 1
    /\ \E i, j \in DOMAIN sock :
          /\ i < j
          /\ sock[i].pc = "closed" /\ sock[i].sid # 0 /\ sock[i].hello
          /\ sock[j].pc = "closed" /\ sock[j].code = 1013

C16_Dropped ==
    \A k \in TickItems :
        item[k].future = "cancelled" =>
            /\ ~\E j \in Partials : wire[j].rx = RxAt(k)
            /\ C4_Held(k - 1) \/ runs[k] > 0

C16_Step ==
    \A k \in TickItems :
        /\ (item[k].future = "pending" /\ item'[k].future = "cancelled") =>
              /\ wire' = wire /\ queue' = queue
              /\ sess'.pc = "recv" /\ sess'.status = ""
              /\ sess'.full_buf = sess.full_buf
              /\ sess'.ctx_buf = sess.ctx_buf
              /\ sess'.pending_segments = sess.pending_segments
        /\ item[k].future = "cancelled" => item'[k] = item[k]

\* C16: when the wait for a tick times out, nothing is yielded for it, the
\* RPC stays open ready for the next message with its buffers intact, the
\* abandoned item stays queued until a batch takes it, and the worker's
\* outcome leaves the cancelled future alone.
C16_TickTimeoutDropsTick == [](C16_Dropped) /\ [][C16_Step]_vars

\* a tick timed out, the worker ran its item all the same, and the tick of a
\* later chunk gave a partial
C16_Witness ==
    \E k \in TickItems :
        /\ item[k].future = "cancelled" /\ runs[k] > 0
        /\ agg = "get"
        /\ \E j \in Partials : wire[j].rx > RxAt(k)

C17_Step == sess.rx >= max_audio_bytes => sess'.rx <= sess.rx

\* C17: once the audio received by a stream has reached max_audio_seconds,
\* the stream takes in (buffers, submits) no further audio.
C17_AudioCapped == [][C17_Step]_vars

\* the stream is past its first message and the RPC is not over
StreamOpen == sess.pc \notin {"off", "first"} /\ ~RpcOver

\* C18: a stream whose streaming_config declares a sample rate other than
\* 16000 Hz is aborted with INVALID_ARGUMENT at its first message: while such
\* a stream is open it has buffered no audio and submitted no item.
C18_RateChecked ==
    (StreamOpen /\ sess.sample_rate_hertz # SAMPLE_RATE) =>
        /\ sess.rx = 0
        /\ \A k \in DOMAIN item : item[k].owner = "env"

\* C19: a first message without streaming_config, or with an encoding other
\* than LINEAR_PCM, ends the RPC with INVALID_ARGUMENT with nothing buffered,
\* submitted or yielded; a stream that is open after its first message had a
\* valid one.
C19_FirstMessageValidated ==
    /\ sess.first_msg \in {"no_config", "bad_encoding"} =>
          /\ sess.pc = "aborted" /\ sess.status = "INVALID_ARGUMENT"
          /\ sess.rx = 0 /\ sess.full_buf = 0 /\ sess.ctx_buf = 0
          /\ seqCtr = 0 /\ wire = <<>>
    /\ StreamOpen => sess.first_msg = "valid"
    /\ sess.pc = "first" => (sess.rx = 0 /\ seqCtr = 0)

\* a stream was refused for its encoding
C19_Witness ==
    /\ sess.pc = "aborted" /\ sess.status = "INVALID_ARGUMENT"
    /\ sess.first_msg = "bad_encoding"

\* the step handles a non-empty audio message and the RPC goes on
C20_ChunkTaken == sess.pc = "recv" /\ sess'.rx > sess.rx

\* the step is the one in which the handler, after a tick has returned,
\* evaluates the segmentation: at once without interim results, on the
\* resumption after the partial with them
C20_SegPoint ==
    /\ \/ sess.pc = "yield_partial"
       \/ sess.pc = "tick_wait" /\ ~sess.interim /\ FutureOf(sess.fut) = "result"
    /\ sess' # sess

C20_Step ==
    /\ (StreamOpen /\ ~sess.interim) => Partials' = Partials
    /\ C20_ChunkTaken =>
          LET since == sess.since_last_emit + (sess'.rx - sess.rx)
          IN  seqCtr' > seqCtr <=>
                  /\ since >= step_bytes
                  /\ ~Decimate(QueueHot, now, sess.last_emit_monotonic)
    /\ (sess.pc = "tick_wait" /\ FutureOf(sess.fut) = "result" /\ sess' # sess) =>
          /\ sess'.pc = "yield_partial" <=> sess.interim
          /\ sess'.pc = "yield_partial" =>
                /\ sess'.since_last_emit = 0
                /\ sess'.last_emit_monotonic = sess.now_mono
    /\ C20_SegPoint =>
          LET since_seg == sess.full_buf - sess.seg_start_bytes
              cut == seqCtr' = seqCtr + 1 /\ item'[seqCtr'].owner = "seg"
                     /\ item'[seqCtr'].priority = 0
          IN  /\ (since_seg >= seg_len_bytes /\ WholeSamples(since_seg)) => cut
              /\ since_seg < seg_min_bytes => seqCtr' = seqCtr
              /\ (StreamOpen' /\ ~cut) =>
                    /\ sess'.since_last_emit = 0
                    /\ sess'.full_buf = sess.full_buf
              /\ \A j \in DOMAIN wire' \ DOMAIN wire : wire'[j].final

\* C20: a stream with interim_results false never has a response with
\* is_final = false on the wire; and, with the same formulas for either value
\* of interim_results: a tick is submitted exactly when the cadence is reached
\* and the tick is not decimated, a returned tick resets the cadence
\* counters, the segmentation is then evaluated on the same thresholds and
\* cuts at priority 0, and what it yields are finals.
C20_InterimOff ==
    /\ []((StreamOpen /\ ~sess.interim) => Partials = {})
    /\ [][C20_Step]_vars

\* a stream without interim results: a tick has returned, a segment was cut
\* and its final is on the wire, and no partial is
C20_Witness ==
    /\ StreamOpen /\ ~sess.interim /\ Partials = {}
    /\ \E k \in TickItems : item[k].future = "result"
    /\ SegFinals # {}

\* C21: no request of the HTTP endpoint reaches submit with the queue full:
\* every item the endpoint submits is accepted (a request that finds the
\* queue full is answered 429 instead).
C21_BusyIs429 ==
    /\ \A k \in DOMAIN item : item[k].owner = "http" => item[k].accepted
    /\ \A i \in DOMAIN http : http[i].status = 500 => FutureOf(http[i].fut) = "exception"

\* C22: a connection that has sent eos is sent at most one final frame
\* while its input is finished: the decode loop sends no second final to it,
\* in the same iteration or a later one.
C22_OneFinalOnEos == \A i \in DOMAIN sock : sock[i].eos_finals <= 1

\* what the decision is to be for the silence and the end-word flag that a
\* call of should_flush saw: silence >= quiet_ms, or an end word with
\* silence >= max(80, quiet_ms / 2), the half taken exactly
C23_Decision(r, q) ==
    \/ r.silence_ms >= q
    \/ r.has_end_word /\ 2 * r.silence_ms >= Max(2 * end_word_floor_ms, q)

\* C23: should_flush returns true exactly when the observed silence is at
\* least quiet_ms, or an end word was seen and the observed silence is at
\* least max(80, quiet_ms/2), for every quiet_ms, odd values included.
C23_ShouldFlushExact ==
    decider.result.called =>
        (decider.result.flush <=> C23_Decision(decider.result, decider.quiet_ms))

\* a pass of the loop of wait_for_settle that goes to sleep saw should_flush
\* false before the deadline, and a pass that returns saw it true or the
\* deadline reached
C24_Step ==
    /\ (decider'.wpc = "sleep"
          /\ (decider.wpc = "idle" \/ decider'.wake # decider.wake))
        => (~should_flush(decider) /\ decider.t < decider'.deadline)
    /\ (decider.wpc # "returned" /\ decider'.wpc = "returned")
        => (should_flush(decider) \/ decider.t >= decider'.deadline)

\* no sleep of wait_for_settle is set to end a poll interval or more after
\* the deadline
C24_Bounded ==
    decider.wpc = "sleep" => decider.wake < decider.deadline + poll_ms

\* C24: wait_for_settle returns at the first poll at which should_flush is
\* true, and in any case returns once max_wait_ms has elapsed, whatever
\* events arrive or do not arrive.
C24_Settles ==
    /\ [][C24_Step]_vars
    /\ [](C24_Bounded)
    /\ (decider.wpc = "sleep" ~> decider.wpc = "returned")

C24_Witness ==
    /\ decider.wpc = "returned"
    /\ decider.t < decider.deadline
    /\ decider.has_end_word
    /\ should_flush(decider)

\* C25: every PCM16 sample s converted to float32 with s / 32768.0 and back
\* with clip(x, -1, 1) * 32768 cut to a 16-bit integer is s again.
C25_RoundTrip == sample.pc = "back" => sample.out = sample.s

C25_Witness ==
    /\ sample.pc = "back"
    /\ sample.s = 0 - 2^15
    /\ sample.out = sample.s

\* a chunk arrives whose tick is dropped by decimation: the cadence is
\* reached, the queue is hot and the last emit is recent
C26_Decimated ==
    /\ sess.pc = "recv" /\ sess'.rx > sess.rx
    /\ CadenceReached(sess.since_last_emit + (sess'.rx - sess.rx))
    /\ Decimate(QueueHot, now, sess.last_emit_monotonic)

C26_Step == C26_Decimated => sess'.since_last_emit = 0

\* C26: a tick dropped by decimation resets bytes_since_last_emit to 0.
C26_DecimationResets == [][C26_Step]_vars

\* the wait for a tick's future ends with a timeout
C27_TimedOut ==
    /\ sess.pc = "tick_wait" /\ FutureOf(sess.fut) = "pending"
    /\ sess'.pc = "recv"

C27_Step == C27_TimedOut => sess'.since_last_emit = 0

\* C27: a tick that times out resets bytes_since_last_emit to 0, so that
\* the next chunks do not each start a tick again.
C27_TimeoutResets == [][C27_Step]_vars

\* the audio buffered since the last cut, once the chunk of this step is in
\* full_buf, has the length of a segment
C28_Due ==
    (sess.full_buf + (sess'.rx - sess.rx)) - sess.seg_start_bytes >= seg_len_bytes

\* a segment is submitted at priority 0 and entered in pending_segments
C28_Cut ==
    /\ seqCtr' = seqCtr + 1
    /\ item'[seqCtr'].owner = "seg" /\ item'[seqCtr'].priority = 0
    /\ Len(sess'.pending_segments) = Len(sess.pending_segments) + 1

C28_Step == ((C26_Decimated \/ C27_TimedOut) /\ C28_Due) => C28_Cut

\* C28: segmentation is evaluated after every tick opportunity, also one
\* that was decimated or timed out: with the cadence reached and a whole
\* segment length buffered, a segment is cut at priority 0 while that chunk
\* is handled.
C28_SegmentationEveryTick == [][C28_Step]_vars

\* the finals of the tail on the wire
TailFinals == {j \in DOMAIN wire : wire[j].final /\ wire[j].seg = -1}

\* C29: the final of the tail is emitted after the finals of all segments
\* cut before it, also of the segments still pending when the stream ends.
C29_TailFinalLast ==
    \A j \in TailFinals : \A k \in SegFinals : k < j

\* every pending segment cut before the segment of entry p has a complete
\* future and was handled earlier in the pass (it is in done_now): the pass
\* skipped none of them
C30_EarlierComplete(p) ==
    \A k \in 1..Len(sess.pending_segments) :
        sess.pending_segments[k][2] < p[2] =>
            /\ FutureOf(sess.pending_segments[k][1]) # "pending"
            /\ sess.pending_segments[k] \in Range(sess.done_now)

C30_WitnessPrefix ==
    /\ sess.pc = "yield_final" /\ sess.pos = 2
    /\ Len(sess.pending_segments) = 2

\* the wait of the end-of-stream loop for the final of a segment times out
C31_FinalTimedOut ==
    /\ sess.pc = "end_wait" /\ FutureOf(sess.fut) = "pending"
    /\ item'[sess.fut + 1].future = "cancelled"

C31_Step == C31_FinalTimedOut => sess'.pc \notin {"aborted", "crashed"}

\* C31: when the wait for the final of one segment exceeds finals_timeout_s
\* the session reports the error for that segment and moves on: the RPC is
\* not ended, the finals of the other pending segments are still delivered.
C31_TimeoutMovesOn == [][C31_Step]_vars

\* the session waits for a tick whose batch the worker failed on
C32_TickFailed == sess.pc = "tick_wait" /\ FutureOf(sess.fut) = "exception"

C32_Step ==
    C32_TickFailed =>
        /\ sess'.pc \notin {"aborted", "crashed"}
        /\ wire' = wire

\* C32: when the worker fails on the batch of a session's partial tick, the
\* tick is dropped without a frame on the wire and the session stays open;
\* only a failed final ends the RPC with INTERNAL.
C32_FailedTickDropped == [][C32_Step]_vars

\* a step cuts a segment: the session submits an item as a segment and
\* put_nowait takes it (the submit that raises QueueFull is C13's case).  The
\* drain that follows the cut in the same step aborts the RPC when an
\* earlier segment failed; the locals are compared when it does not.
C33_CutStep ==
    /\ seqCtr' = seqCtr + 1
    /\ item'[seqCtr'].owner = "seg"
    /\ item'[seqCtr'].accepted

\* the locals at the cut: a tick that returns is accounted for before the
\* segmentation of the same step
C33_AtCut ==
    IF sess.pc = "tick_wait"
    THEN [sess EXCEPT !.since_last_emit = 0,
                      !.last_emit_monotonic = sess.now_mono]
    ELSE sess

C33_Step ==
    C33_CutStep =>
        LET c == C33_AtCut
            e == item'[seqCtr']
            n == Len(sess'.pending_segments)
        IN  /\ e.priority = 0
            /\ e.waveform = <<c.rx - (c.full_buf - c.seg_start_bytes), c.rx>>
            /\ sess'.pc \in {"recv", "yield_final", "aborted"}
            /\ sess'.pc = "aborted" =>
                  \E k \in 1..Len(c.pending_segments) :
                      FutureOf(c.pending_segments[k][1]) = "exception"
            /\ sess'.pc # "aborted" =>
                  /\ n >= 1 /\ sess'.pending_segments[n] = <<seqCtr, c.seg_idx>>
                  /\ \A k \in 1..(n - 1) :
                         sess'.pending_segments[k] \in Range(c.pending_segments)
                  /\ sess'.seg_idx = c.seg_idx + 1
                  /\ sess'.full_buf = Min(seg_overlap_bytes, c.full_buf)
                  /\ sess'.seg_start_bytes = 0
                  /\ sess'.ctx_buf = c.ctx_buf
                  /\ sess'.since_last_emit = c.since_last_emit
                  /\ sess'.last_emit_monotonic = c.last_emit_monotonic

\* C33: a cut submits the bytes of full_buf from seg_start to its end at
\* priority 0, appends exactly one (future, seg_idx) entry to
\* pending_segments, adds one to seg_idx, leaves the last min(overlap,
\* len(full_buf)) bytes in full_buf with seg_start = 0, and leaves ctx_buf,
\* bytes_since_last_emit and last_emit_monotonic as they were.
C33_CutEffect == [][C33_Step]_vars

\* a second segment was cut and overlap bytes were kept
C33_Witness ==
    /\ sess.pc = "recv" /\ sess.seg_idx = 2
    /\ seg_overlap_bytes > 0 /\ sess.full_buf = seg_overlap_bytes
    /\ Len(sess.pending_segments) >= 1

\* the priority of the submitted item with sequence number k
PriorityOf(k) == item[k + 1].priority

\* C34: a batch holds items of one priority, the one the aggregator collects
\* for, while it is assembled and when the worker runs it.
C34_OnePriority ==
    agg \in {"collect", "run"} =>
        \A i \in 1..Len(batch_items) : PriorityOf(batch_items[i]) = prio

\* C34: an entry of lower priority taken from the queue during the assembly
\* is not added to the batch; it is held in pushed_back and is in the queue
\* again when the batch is passed to the worker.
C34_Step ==
    AggCollect /\ Head(queue)[1] > prio =>
        /\ Head(queue)[3] \notin Range(batch_items')
        /\ prio' = prio
        /\ IF agg' = "run" THEN Head(queue) \in Range(queue')
                           ELSE Head(queue) \in Range(pushed_back')

C34_MismatchReturned == [][C34_Step]_vars

\* C34: every batch passed to the worker consists of items of one single
\* priority; an item of a different priority dequeued during assembly is not
\* added to the batch but returned to the queue.
C34_HomogeneousBatch == []C34_OnePriority /\ C34_MismatchReturned

\* the assembly has collected two items of one priority and holds a
\* dequeued item of lower priority for its return
C34_Witness ==
    /\ agg = "collect" /\ Len(batch_items) >= 2
    /\ pushed_back # <<>>
    /\ pushed_back[1][1] > prio

\* C35: every batch passed to the worker has at least 1 and at most
\* max_batch items, and exactly 1 item when window_ms = 0.
C35_BatchSize ==
    agg = "run" =>
        /\ Len(batch_items) >= 1
        /\ Len(batch_items) <= max_batch
        /\ window = 0 => Len(batch_items) = 1

\* the worker runs a full batch while a further item of its priority waits
C35_Witness ==
    /\ agg = "run" /\ Len(batch_items) = max_batch
    /\ \E i \in 1..Len(queue) : queue[i][1] = prio

\* with a window of 0 the worker runs one item while another of its priority
\* waits
C35_WitnessNoWindow ==
    /\ agg = "run" /\ window = 0 /\ Len(batch_items) = 1
    /\ \E i \in 1..Len(queue) : queue[i][1] = prio

\* a partial/word event at the time t of the client's clock
C36_PartialStep ==
    update_partial =>
        /\ decider'.last_partial_ts = decider.t
        /\ decider'.vad_off_since = 0
        /\ decider'.has_end_word = decider.has_end_word
        /\ decider'.pending_word = decider.pending_word

\* an EndWord event
C36_EndWordStep ==
    set_end_word =>
        /\ decider'.has_end_word
        /\ decider.vad_off_since = 0 => decider'.vad_off_since = decider.t
        /\ decider.vad_off_since # 0 =>
              decider'.vad_off_since = decider.vad_off_since
        /\ decider'.last_partial_ts = decider.last_partial_ts
        /\ decider'.pending_word = decider.pending_word

\* no step of the gate clears the flag
C36_FlagKept == decider.has_end_word => decider'.has_end_word

\* C36: in the settle gate a partial/word event at time t sets
\* last_partial_ts to t and clears vad_off_since, leaving has_end_word and
\* pending_word as they were; an EndWord event sets has_end_word and sets
\* vad_off_since to the current time only if it was unset; has_end_word is
\* never cleared.
C36_EventEffects ==
    [][C36_PartialStep /\ C36_EndWordStep /\ C36_FlagKept]_vars

\* a partial was seen, then VAD-off began, and later the gate holds the
\* EndWord flag with the earlier VAD-off time
C36_Witness ==
    /\ decider.has_end_word
    /\ decider.last_partial_ts # 0
    /\ decider.vad_off_since > decider.last_partial_ts
    /\ decider.vad_off_since < decider.t

\* the item with sequence number s has an entry in the queue
Queued(s) == \E i \in 1..Len(queue) : queue[i][3] = s

\* C37: each submitted WorkItem is included in exactly one batch given to the
\* worker: no item is both in the batch being run and in the queue, and no
\* waveform is run twice, including the item whose arrival triggers a
\* preemption.
C37_RunOnce ==
    /\ \A k \in DOMAIN runs : runs[k] <= 1
    /\ agg = "run" => \A i \in 1..Len(batch_items) : ~Queued(batch_items[i])

\* C38: every item the aggregator removes from the queue during the assembly
\* without running it is back in the queue before the worker call starts:
\* the return of the pushed-back entries never raises QueueFull, the
\* aggregator task never dies and it holds no entry outside the assembly.
C38_PushBackNeverFails ==
    /\ agg # "dead"
    /\ agg # "collect" => pushed_back = <<>>

\* the priority-0 submissions of the stream that the queue took, as item
\* indices: the cut segments and the terminal tail
C39_Finals == {k \in DOMAIN item : item[k].owner \in {"seg", "tail"}
                                     /\ item[k].accepted}
C39_Lo(k) == item[k].waveform[1]
C39_Hi(k) == item[k].waveform[2]
\* bytes of submission k that a cut keeps as prefix of the next one
C39_Kept(k) == Min(seg_overlap_bytes, C39_Hi(k) - C39_Lo(k))
C39_Last == CHOOSE k \in C39_Finals : \A j \in C39_Finals : j <= k

\* the first submission starts at byte 0 and each next one starts with the
\* bytes the one before it kept: nothing between two submissions is left out
\* and they share the overlap only
C39_Chained ==
    \A k \in C39_Finals :
        IF \E j \in C39_Finals : j < k
        THEN LET j == CHOOSE j \in C39_Finals :
                        j < k /\ \A i \in C39_Finals : i < k => i <= j
             IN  C39_Lo(k) = C39_Hi(j) - C39_Kept(j)
        ELSE C39_Lo(k) = 0

\* while messages are received, full_buf holds every byte not yet submitted
C39_Buffered ==
    sess.pc \in {"recv", "tick_wait", "yield_partial", "yield_final"} =>
        sess.rx - sess.full_buf =
            IF C39_Finals = {} THEN 0
            ELSE C39_Hi(C39_Last) - C39_Kept(C39_Last)

\* after the last message, the last submission ends with the last byte
C39_Flushed ==
    sess.pc \in {"tail_wait", "yield_tail", "end_wait", "yield_end"} =>
        \/ sess.rx = 0
        \/ C39_Finals # {} /\ C39_Hi(C39_Last) = sess.rx

\* C39: for a stream that ends without error every audio byte received is
\* contained in at least one priority-0 submission (a cut segment or the
\* terminal tail), and two consecutive priority-0 submissions share exactly
\* the retained overlap bytes: no audio is dropped at a cut.
C39_NoAudioDropped == C39_Chained /\ C39_Buffered /\ C39_Flushed

\* the stream is at its end after two cuts with overlap and a tail
C39_Witness ==
    /\ sess.pc \in {"yield_tail", "end_wait", "yield_end"}
    /\ seg_overlap_bytes > 0
    /\ Cardinality(C39_Finals) >= 3
    /\ item[C39_Last].owner = "tail"

\* connection i is open with PCM queued for its stream
C40_Queued(i) == i \in DOMAIN sock /\ sock[i].pc = "open" /\ sock[i].pcm_q > 0
\* the queued PCM of connection i was fed to its stream, or it is gone
C40_Fed(i) == i \in DOMAIN sock /\ (sock[i].pcm_q = 0 \/ sock[i].pc = "closed")
\* connection i is open with a decode-ready stream
C40_Ready(i) == i \in DOMAIN sock /\ sock[i].pc = "open" /\ sock[i].fed > 0
\* the decode-ready frames of connection i were decoded, or it is gone
C40_Decoded(i) == i \in DOMAIN sock /\ (sock[i].fed = 0 \/ sock[i].pc = "closed")

\* C40: in the decode loop every connection with queued audio eventually has
\* it fed to its recognizer stream and, once decode-ready, is eventually
\* included in a decode batch, also when more than max_batch connections are
\* decode-ready in every iteration.
C40_EventuallyServed ==
    \A i \in 1..MaxStreams :
        /\ C40_Queued(i) ~> C40_Fed(i)
        /\ C40_Ready(i) ~> C40_Decoded(i)

====
